--------------------------- MODULE CommunityChat ----------------------------
(***************************************************************************)
(* The community's profiles, rooms, private threads, reports and live      *)
(* sockets (community_chat_service.py, community_router.py,                *)
(* community_ws_hub.py, the chat endpoints of admin_router.py).            *)
(*                                                                         *)
(* A message takes its id when it is inserted and is seen by others when   *)
(* its transaction commits: the two orders need not agree.  Readers page   *)
(* through a room or a thread by id, or listen on a socket.                *)
(***************************************************************************)
EXTENDS ServerRequests, Sequences

CONSTANTS ChatAccounts, \* a set of numbers, as account ids are sorted
          Names,        \* numbers, of which every account's is one; 1 is the default name
          Sockets,
          ChatPage,     \* limit of a page
          RateMax, RateWindow,
          MaxMessages, MaxReports, MaxChatTime \* bounds

ASSUME ChatAssumption == /\ ChatAccounts \subseteq Nat /\ ChatAccounts # {}
                         /\ Names \subseteq Nat \ {0}
                         /\ {ChatPage, RateMax, MaxMessages} \subseteq Nat \ {0}

Room == <<>> \* the one room that is followed

\* Mutation: the two accounts of a thread are taken in the order of the request.
ThreadAsAsked(a, peer) == <<a, peer>>

\* The name of the thread of two accounts.
ThreadOf(a, peer) == IF a < peer THEN <<a, peer>> ELSE <<peer, a>>

Channels == {Room} \cup { t \in ChatAccounts \X ChatAccounts : t[1] < t[2] }
MessageIds == 1..MaxMessages
MembersOf(c) == IF c = Room THEN ChatAccounts ELSE {c[1], c[2]}

VARIABLES profile,   \* display name of each account, 0 without a row
          threads,   \* the rows of dm_threads
          chat,      \* the rows of chat_messages and dm_messages, by id
          recent,    \* times of the posts of each account that are in the window
          chatTime,
          writing,   \* where each request is, and what it has read
          overtaken, \* messages that committed after a later one of their channel
          reader,    \* what a client that pages through each channel has
          joined,    \* which socket listens to which channel
          reports    \* the rows of chat_reports

chatVars == <<profile, threads, chat, recent, chatTime, writing, overtaken,
              reader, joined, reports>>

NoMessage == [channel |-> Room, author |-> 0, state |-> "none"]
NoWriting(a) == [at |-> "idle", by |-> a, channel |-> Room, name |-> 0, new |-> FALSE, id |-> 0]
Idle == NoWriting(CHOOSE a \in ChatAccounts : TRUE)
NewReader == [first |-> 0, last |-> 0, got |-> {}, heard |-> {}]

ChatTypeOK ==
    /\ profile \in [ChatAccounts -> Names \cup {0}]
    /\ threads \subseteq ChatAccounts \X ChatAccounts
    /\ \A m \in MessageIds : chat[m].state \in {"none", "inserted", "gone", "shown", "deleted"}
    /\ \A a \in ChatAccounts : Len(recent[a]) <= RateMax
    /\ chatTime \in 0..MaxChatTime
    /\ \A r \in Requests : writing[r].at \in {"idle", "name", "thread", "post", "commit", "tell"}
    /\ overtaken \subseteq MessageIds
    /\ DOMAIN reader = Channels
    /\ joined \subseteq Sockets \X Channels
    /\ \A k \in DOMAIN reports :
          reports[k].status \in {"open", "reviewed", "dismissed", "actioned"}

\* The community is new, or everybody has a name and knows each other.
ChatInit ==
    /\ \/ profile = [a \in ChatAccounts |-> 0] /\ threads = {}
       \/ profile = [a \in ChatAccounts |-> a] /\ threads = Channels \ {Room}
    /\ chat = [m \in MessageIds |-> NoMessage]
    /\ recent = [a \in ChatAccounts |-> <<>>]
    /\ chatTime = 0
    /\ writing = [r \in Requests |-> Idle]
    /\ overtaken = {}
    /\ reader = [c \in Channels |-> NewReader]
    /\ joined = {}
    /\ reports = <<>>

-----------------------------------------------------------------------------
(* Names and threads.  Each is looked up first; what another request took  *)
(* in between, a unique column or a primary key refuses.                   *)

StartsWriting(kind, r, w) ==
    /\ Arrives(kind) /\ writing[r].at = "idle"
    /\ writing' = [writing EXCEPT ![r] = w]

StopsWriting(r) == writing' = [writing EXCEPT ![r] = Idle]

IsTaken(n, a) == \E b \in ChatAccounts \ {a} : profile[b] = n

\* PUT /profile with a name that nobody else has.
SetName(r, a, n) ==
    /\ ~IsTaken(n, a)
    /\ StartsWriting("name", r, [NoWriting(a) EXCEPT !.at = "name", !.name = n, !.new = profile[a] = 0])
    /\ UNCHANGED <<profile, threads, chat, recent, chatTime, overtaken, reader, joined, reports>>

\* A first sign of life takes the first variant of the default name that is free.
Heartbeat(r, a) ==
    LET free == { n \in Names : ~IsTaken(n, a) } IN
    /\ profile[a] = 0 /\ free # {}
    /\ StartsWriting("name", r, [NoWriting(a) EXCEPT !.at = "name", !.new = TRUE,
                                     !.name = CHOOSE n \in free : \A o \in free : n <= o])
    /\ UNCHANGED <<profile, threads, chat, recent, chatTime, overtaken, reader, joined, reports>>

CommitName(r) ==
    LET w == writing[r] IN
    /\ w.at = "name"
    /\ profile' = IF IsTaken(w.name, w.by) \/ (w.new /\ profile[w.by] # 0) THEN profile
                   ELSE [profile EXCEPT ![w.by] = w.name]
    /\ StopsWriting(r)
    /\ UNCHANGED <<threads, chat, recent, chatTime, overtaken, reader, joined, reports>>

\* A thread is opened with the owner of a display name.
OpenThread(r, a, peer) ==
    /\ profile[peer] # 0 /\ peer # a
    /\ ThreadOf(a, peer) \notin threads
    /\ StartsWriting("thread", r, [NoWriting(a) EXCEPT !.at = "thread",
                                                       !.channel = ThreadOf(a, peer)])
    /\ UNCHANGED <<profile, threads, chat, recent, chatTime, overtaken, reader, joined, reports>>

CommitThread(r) ==
    /\ writing[r].at = "thread"
    /\ threads' = threads \cup {writing[r].channel}
    /\ StopsWriting(r)
    /\ UNCHANGED <<profile, chat, recent, chatTime, overtaken, reader, joined, reports>>

-----------------------------------------------------------------------------
(* Messages.                                                               *)

InWindow(a) == SelectSeq(recent[a], LAMBDA t : chatTime - t < RateWindow)

\* A post counts for the rate whether or not its text or its thread is refused later.
Post(r, a, c) ==
    /\ Len(InWindow(a)) < RateMax
    /\ recent' = [recent EXCEPT ![a] = Append(InWindow(a), chatTime)]
    /\ StartsWriting("post", r, [NoWriting(a) EXCEPT !.at = "post", !.channel = c])
    /\ UNCHANGED <<profile, threads, chat, chatTime, overtaken, reader, joined, reports>>

PostTooSoon(a) ==
    /\ Arrives("post") /\ Len(InWindow(a)) >= RateMax
    /\ recent' = [recent EXCEPT ![a] = InWindow(a)]
    /\ UNCHANGED <<profile, threads, chat, chatTime, writing, overtaken, reader, joined, reports>>

\* One sequence of ids stands for those of the room's table and of the threads' table: nothing
\* compares ids of different channels.
Inserted == { m \in MessageIds : chat[m].state # "none" }

InsertMessage(r) ==
    LET w == writing[r]  m == Cardinality(Inserted) + 1 IN
    /\ w.at = "post"
    /\ w.channel # Room => w.channel \in threads /\ w.by \in MembersOf(w.channel)
    /\ m \in MessageIds
    /\ chat' = [chat EXCEPT ![m] = [channel |-> w.channel, author |-> w.by, state |-> "inserted"]]
    /\ writing' = [writing EXCEPT ![r] = [w EXCEPT !.at = "commit", !.id = m]]
    /\ UNCHANGED <<profile, threads, recent, chatTime, overtaken, reader, joined, reports>>

CommitMessage(r) ==
    LET w == writing[r] IN
    /\ w.at = "commit"
    /\ chat' = [chat EXCEPT ![w.id].state = "shown"]
    /\ overtaken' = overtaken \cup { m \in 1..w.id - 1 :
                                       chat[m].state = "inserted" /\ chat[m].channel = chat[w.id].channel }
    /\ writing' = [writing EXCEPT ![r].at = "tell"]
    /\ UNCHANGED <<profile, threads, recent, chatTime, reader, joined, reports>>

\* The sockets that listen are told; those that are dead leave.
Broadcast(r, dead) ==
    LET w == writing[r] IN
    /\ w.at = "tell"
    /\ reader' = IF \E s \in Sockets \ dead : <<s, w.channel>> \in joined
                 THEN [reader EXCEPT ![w.channel].heard = @ \cup {w.id}] ELSE reader
    /\ joined' = joined \ (dead \X {w.channel})
    /\ StopsWriting(r)
    /\ UNCHANGED <<profile, threads, chat, recent, chatTime, overtaken, reports>>

\* The request is refused or dies; what it inserted is rolled back, its id is not reused.
WritingFails(r) ==
    LET w == writing[r] IN
    /\ w.at # "idle"
    /\ chat' = IF w.at = "commit" THEN [chat EXCEPT ![w.id].state = "gone"] ELSE chat
    /\ StopsWriting(r)
    /\ UNCHANGED <<profile, threads, recent, chatTime, overtaken, reader, joined, reports>>

-----------------------------------------------------------------------------
(* Readers, sockets, reports.                                              *)

Shown(c) == { m \in MessageIds : chat[m].state = "shown" /\ chat[m].channel = c }

\* The first messages of a set, or the last.
Oldest(ms) == { m \in ms : Cardinality({ n \in ms : n < m }) < ChatPage }
Newest(ms) == { m \in ms : Cardinality({ n \in ms : n > m }) < ChatPage }

\* Mutation: the page after an id is the newest one.
LatestAfter(c, after) == Newest({ m \in Shown(c) : m > after })

\* after_id: the oldest messages that come after it; without it, the latest page.
PageAfter(c, after) == IF after = 0 THEN Newest(Shown(c)) ELSE Oldest({ m \in Shown(c) : m > after })

ReadPage(c) ==
    LET page == PageAfter(c, reader[c].last) IN
    /\ Arrives("read") /\ page # {}
    /\ reader' = [reader EXCEPT
                     ![c].first = IF @ = 0 THEN CHOOSE m \in page : \A n \in page : m <= n ELSE @,
                     ![c].last = CHOOSE m \in page : \A n \in page : m >= n,
                     ![c].got = @ \cup page]
    /\ UNCHANGED <<profile, threads, chat, recent, chatTime, writing, overtaken, joined, reports>>

Join(s, c) ==
    /\ Arrives("join")
    /\ joined' = joined \cup {<<s, c>>}
    /\ UNCHANGED <<profile, threads, chat, recent, chatTime, writing, overtaken, reader, reports>>

Disconnect(s) ==
    /\ Arrives("join")
    /\ joined' = { j \in joined : j[1] # s }
    /\ UNCHANGED <<profile, threads, chat, recent, chatTime, writing, overtaken, reader, reports>>

ReportMessage(m) ==
    /\ Arrives("report") /\ chat[m].state \in {"shown", "deleted"} /\ Len(reports) < MaxReports
    /\ reports' = Append(reports, [message |-> m, status |-> "open"])
    /\ UNCHANGED <<profile, threads, chat, recent, chatTime, writing, overtaken, reader, joined>>

\* An operator decides, again if need be; a message that is acted upon is not listed again.
ResolveReport(k, status) ==
    /\ Arrives("report")
    /\ reports' = [reports EXCEPT ![k].status = status]
    /\ chat' = IF status = "actioned" THEN [chat EXCEPT ![reports[k].message].state = "deleted"]
               ELSE chat
    /\ UNCHANGED <<profile, threads, recent, chatTime, writing, overtaken, reader, joined>>

DeleteMessage(m) ==
    /\ Arrives("report") /\ m \in Shown(Room)
    /\ chat' = [chat EXCEPT ![m].state = "deleted"]
    /\ UNCHANGED <<profile, threads, recent, chatTime, writing, overtaken, reader, joined, reports>>

ChatTick ==
    /\ Arrives("wait") /\ chatTime < MaxChatTime
    /\ chatTime' = chatTime + 1
    /\ UNCHANGED <<profile, threads, chat, recent, writing, overtaken, reader, joined, reports>>

ChatNext ==
    \/ \E r \in Requests :
          \/ CommitName(r) \/ CommitThread(r) \/ InsertMessage(r) \/ CommitMessage(r)
          \/ WritingFails(r) \/ \E dead \in SUBSET Sockets : Broadcast(r, dead)
          \/ \E a \in ChatAccounts :
                \/ Heartbeat(r, a) \/ \E n \in Names : SetName(r, a, n)
                \/ \E peer \in ChatAccounts : OpenThread(r, a, peer)
                \/ \E c \in Channels : Post(r, a, c)
    \/ \E a \in ChatAccounts : PostTooSoon(a)
    \/ \E c \in Channels : ReadPage(c)
    \/ \E s \in Sockets : Disconnect(s) \/ \E c \in Channels : Join(s, c)
    \/ \E m \in MessageIds : ReportMessage(m) \/ DeleteMessage(m)
    \/ \E k \in DOMAIN reports : \E st \in {"reviewed", "dismissed", "actioned"} : ResolveReport(k, st)
    \/ ChatTick

-----------------------------------------------------------------------------
\* A client that pages on from the last id it has skips no message that is listed,
\* except one that committed after a message with a later id.
ReadersMissNothing ==
    \A c \in Channels : \A m \in Shown(c) :
        m \in reader[c].first..reader[c].last => m \in reader[c].got \cup overtaken

\* Two accounts share one thread, whoever opens it, and nobody else's name is taken.
ThreadsAreShared ==
    /\ \A s, t \in threads : {s[1], s[2]} = {t[1], t[2]} => s = t
    /\ \A a, b \in ChatAccounts : a # b /\ profile[a] # 0 => profile[a] # profile[b]
=============================================================================
