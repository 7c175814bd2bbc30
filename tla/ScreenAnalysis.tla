--------------------------- MODULE ScreenAnalysis ---------------------------
(***************************************************************************)
(* The analysis of one account's screenshots of one pair (analyze of       *)
(* brain_router.py): the market data a screen is matched with, the rolling *)
(* history of frames in Redis, the route and the decision, and the stream  *)
(* of bars that the terminal posts at its own pace (ohlc_stream_service).  *)
(*                                                                         *)
(* A refused upload (unbound key, rate, type, size) changes nothing here.  *)
(* An answer is never published: no analysis returns the entry price that  *)
(* publishing and executing read first, whatever the two settings say.     *)
(***************************************************************************)
EXTENDS ServerRequests

CONSTANTS Captures,   \* when a screen was taken; a phone replays old ones after an outage
          MaxFrames,  \* max_frames_kept
          MaxScreens  \* bound: screens analysed

ASSUME ScreenAssumption == /\ Captures \subseteq Nat
                           /\ MaxFrames \in Nat \ {0}
                           /\ MaxScreens \in Nat

\* Where the numbers come from that go with a screen.
Sources == {"none", "client", "worker", "no close", "stream"}

Acquisitions == {"none", "WAITING_FOR_OHLC", "CAPTURE_COMPLETE", "INSTRUMENT_BLOCKED"}

Verdicts == {"none", "failed", "EXECUTE_CANDIDATE", "WAITING_FOR_OHLC",
             "NO_ELIGIBLE_RULEBOOK", "NO_QUALIFIED_SIGNAL"}

VARIABLES screen,   \* what each request knows of its screen
          frames,   \* the sorted set of the account: <<capture time, member>>
          received, \* the frames added since that set last expired
          serial,   \* screens taken so far
          stream,   \* the last posted bars: "none", "fresh" or "stale"
          enough    \* whether they are bars enough to evaluate

screenVars == <<screen, frames, received, serial, stream, enough>>

NoScreen == [at |-> "idle", frame |-> <<0, 0>>, named |-> FALSE, source |-> "none", bars |-> FALSE,
             acquired |-> "none", verdict |-> "none"]

Frames == Captures \X (1..MaxScreens)

ScreenTypeOK ==
    /\ \A r \in Requests :
          /\ screen[r].at \in {"idle", "ask", "add", "trim", "read"}
          /\ screen[r].frame \in Frames \cup {<<0, 0>>}
          /\ {screen[r].named, screen[r].bars} \subseteq BOOLEAN
          /\ screen[r].source \in Sources
          /\ screen[r].acquired \in Acquisitions
          /\ screen[r].verdict \in Verdicts
    /\ frames \subseteq received /\ received \subseteq Frames
    /\ serial \in 0..MaxScreens
    /\ stream \in {"none", "fresh", "stale"} /\ enough \in BOOLEAN

ScreenInit ==
    /\ screen = [r \in Requests |-> NoScreen]
    /\ frames = {} /\ received = {}
    /\ serial = 0
    /\ stream = "none" /\ enough = FALSE

-----------------------------------------------------------------------------
\* The terminal posts closed bars; they are too old after a quarter of an hour.
PostBars ==
    /\ Arrives("bars")
    /\ stream' = "fresh"
    /\ enough' \in BOOLEAN
    /\ UNCHANGED <<screen, frames, received, serial>>

BarsAge ==
    /\ stream = "fresh"
    /\ stream' = "stale"
    /\ UNCHANGED <<screen, frames, received, serial, enough>>

\* An upload that names its pair asks for market data, one that does not has none to ask for.
UploadScreen(r) ==
    /\ Arrives("screen")
    /\ screen[r].at = "idle"
    /\ serial < MaxScreens
    /\ \E captured \in Captures, named \in BOOLEAN :
          screen' = [screen EXCEPT ![r] =
              [NoScreen EXCEPT !.at = IF named THEN "ask" ELSE "add",
                               !.frame = <<captured, serial + 1>>,
                               !.named = named]]
    /\ serial' = serial + 1
    /\ UNCHANGED <<frames, received, stream, enough>>

\* A fresh stream is preferred to the snapshot of the worker, which is preferred to the
\* numbers of the form, even when the worker's answer lacks its close.
SourceOf(snapshot, filled) ==
    CASE stream = "fresh" -> "stream"
      [] stream # "fresh" /\ snapshot # "none" -> snapshot
      [] stream # "fresh" /\ snapshot = "none" /\ filled -> "client"
      [] OTHER -> "none"

\* The worker is down, or its job answers, fails or times out; then the stream is looked up.
AskWorker(r) ==
    /\ screen[r].at = "ask"
    /\ \E snapshot \in {"none", "worker", "no close"}, filled \in BOOLEAN :
          screen' = [screen EXCEPT ![r].source = SourceOf(snapshot, filled),
                                   ![r].bars = stream = "fresh" /\ enough,
                                   ![r].at = "add"]
    /\ UNCHANGED <<frames, received, serial, stream, enough>>

\* append_frame: ZADD by capture time, then ZREMRANGEBYRANK.
AddFrame(r) ==
    /\ screen[r].at = "add"
    /\ frames' = frames \cup {screen[r].frame}
    /\ received' = received \cup {screen[r].frame}
    /\ screen' = [screen EXCEPT ![r].at = "trim"]
    /\ UNCHANGED <<serial, stream, enough>>

Later(f, g) == f[1] > g[1] \/ (f[1] = g[1] /\ f[2] > g[2])

\* Those of a set that fewer than MaxFrames others are later than.
LatestOf(set) == {f \in set : Cardinality({g \in set : Later(g, f)}) < MaxFrames}

\* Mutation: the frames that were sent first are trimmed, as with a list.
TrimSentFirst == {f \in frames : Cardinality({g \in frames : g[2] > f[2]}) < MaxFrames}

Trim == LatestOf(frames)

TrimFrames(r) ==
    /\ screen[r].at = "trim"
    /\ frames' = Trim
    /\ screen' = [screen EXCEPT ![r].at = "read"]
    /\ UNCHANGED <<received, serial, stream, enough>>

\* An hour without a screen.
FramesExpire ==
    /\ frames # {}
    /\ frames' = {} /\ received' = {}
    /\ UNCHANGED <<screen, serial, stream, enough>>

-----------------------------------------------------------------------------
\* What the strategies of a pair may say on its last closed bar, "none" where the pair has
\* no rulebook: RSI9 and the baseline only sell; an order of RSI9 goes before a native one,
\* any native or RSI9 answer before the baseline, which is asked only without the two.
Signals ==
    LET actionable == {"BUY", "SELL"}
    IN  {IF rsi9 \in actionable THEN rsi9
         ELSE IF native \in actionable THEN native
         ELSE IF rsi9 # "none" \/ native # "none" THEN "HOLD" ELSE baseline :
         rsi9 \in {"none", "HOLD", "SELL"}, native \in {"none", "HOLD", "BUY", "SELL"},
         baseline \in {"HOLD", "SELL"}}

\* Mutation: the numbers of one candle are evaluated, too.
EvaluatesAnyNumbers(s) == s.source # "none"

\* Five bars at least, which only the stream carries.
Evaluates(s) == s.bars

\* analyze: what the router and the strategies may answer.
Answers(s) ==
    IF ~s.named THEN {[rule |-> "instrument_unspecified", signal |-> "HOLD"]}
    ELSE {[rule |-> "blocked", signal |-> "HOLD"]} \cup
         (IF Evaluates(s) THEN {[rule |-> "evaluated", signal |-> x] : x \in Signals}
          ELSE {[rule |-> "awaiting_ohlc", signal |-> "HOLD"]})

\* derive_acquisition_state: open, high, low and close are there.
AcquiredBy(s, answer) ==
    CASE answer.rule \in {"instrument_unspecified", "blocked"} -> "INSTRUMENT_BLOCKED"
      [] answer.rule \notin {"instrument_unspecified", "blocked"}
            /\ s.source \in {"client", "worker", "stream"} -> "CAPTURE_COMPLETE"
      [] OTHER -> "WAITING_FOR_OHLC"

\* derive_hold_reason; the reasons of a hold that was evaluated (confidence below the
\* threshold, risk gate, no qualified signal) are one here.
VerdictOn(answer, acquired) ==
    CASE answer.signal # "HOLD" -> "EXECUTE_CANDIDATE"
      [] answer.signal = "HOLD" /\ (acquired = "WAITING_FOR_OHLC" \/ answer.rule = "awaiting_ohlc")
            -> "WAITING_FOR_OHLC"
      [] answer.signal = "HOLD" /\ acquired = "INSTRUMENT_BLOCKED" -> "NO_ELIGIBLE_RULEBOOK"
      [] OTHER -> "NO_QUALIFIED_SIGNAL"

\* The history is read and the screen analysed; nothing is awaited in between.  The engine of
\* old indicators has neither state nor reason, and any error of it fails the request.
AnalyzeScreen(r) ==
    /\ screen[r].at = "read"
    /\ \/ \E verdict \in {"none", "failed"} :
             screen' = [screen EXCEPT ![r] = [NoScreen EXCEPT !.verdict = verdict]]
       \/ \E answer \in Answers(screen[r]) :
             LET acquired == AcquiredBy(screen[r], answer)
             IN  screen' = [screen EXCEPT ![r] =
                     [NoScreen EXCEPT !.source = screen[r].source, !.acquired = acquired,
                                      !.verdict = VerdictOn(answer, acquired)]]
    /\ UNCHANGED <<frames, received, serial, stream, enough>>

ScreenNext ==
    \/ PostBars \/ BarsAge \/ FramesExpire
    \/ \E r \in Requests : \/ UploadScreen(r) \/ AskWorker(r) \/ AddFrame(r)
                           \/ TrimFrames(r) \/ AnalyzeScreen(r)

-----------------------------------------------------------------------------
\* Of all frames received, the latest by capture time are in the history, in whatever order
\* the phone replays them and however two requests interleave adding and trimming
\* (indicator_history_service.py:16-25).
NewestFramesAreKept == LatestOf(received) \subseteq frames

\* A screen is a candidate for execution only as a complete capture whose bars came from the
\* stream of the terminal: never on a candle of the form, of a snapshot or of a stale stream,
\* and never for a pair the router blocks (brain_router.py:150-265, observation_package.py).
CandidatesAreSynchronized ==
    \A r \in Requests : screen[r].verdict = "EXECUTE_CANDIDATE" =>
        /\ screen[r].acquired = "CAPTURE_COMPLETE"
        /\ screen[r].source = "stream"
=============================================================================
