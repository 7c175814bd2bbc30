------------------------- MODULE PlatformServices ---------------------------
(***************************************************************************)
(* The services around the trading core: who may come in (Identity,        *)
(* ApiKeys, DemoSignup), what is said (CommunityChat, Notifications), how  *)
(* charts are judged (ScreenAnalysis, RuleEngine, EngineFailover,          *)
(* ShortPosition), which pairs are traded (PairRouting) and what is done   *)
(* at the broker (BrokerTerminal, BrokerSessions, PositionMirror,          *)
(* TradeCopier).                                                           *)
(*                                                                         *)
(* They share no row, no key and no memory, so a behaviour follows the one *)
(* its requests arrive for, while the others stand still.                  *)
(***************************************************************************)
EXTENDS Identity, ApiKeys, DemoSignup, PairRouting, CommunityChat, Notifications,
        ScreenAnalysis, RuleEngine, EngineFailover, ShortPosition,
        BrokerTerminal, BrokerSessions, PositionMirror, TradeCopier

\* The kinds of requests of each service.
Kinds ==
    [identity  |-> {"register", "login", "find", "logout", "redeem", "setup", "enable", "disable"},
     keys      |-> {"issue", "revoke", "force", "rotate", "portal", "show", "expire", "restart"},
     demos     |-> {"trial", "attach", "pay", "preset"},
     pairs     |-> {"offer", "poll", "probe", "deploy"},
     chat      |-> {"name", "thread", "post", "read", "wait", "join", "report"},
     notices   |-> {"emit", "inbox", "prefs", "day", "plan"},
     screens   |-> {"screen", "bars"},
     rules     |-> {"chart"},
     engines   |-> {"engines", "evaluate", "tier"},
     shorts    |-> {"bar"},
     terminal  |-> {"job"},
     sessions  |-> {"vault", "session"},
     mirror    |-> {"position", "reboot"},
     copier    |-> {"addon", "slave", "mirror"}]

ASSUME OneServiceArrives == \A kinds \in Arrivals : \E s \in DOMAIN Kinds : kinds \subseteq Kinds[s]

Serves(s) == arriving \cap Kinds[s] # {}

platformVars == <<arriving, userVars, keyVars, demoVars, routingVars, chatVars, noticeVars,
                  screenVars, ruleVars, engineVars, shortVars,
                  terminalVars, sessionVars, mirrorVars, copierVars>>

PlatformTypeOK ==
    /\ arriving \in Arrivals
    /\ IdentityTypeOK /\ KeysTypeOK /\ DemoTypeOK /\ RoutingTypeOK /\ ChatTypeOK
    /\ NoticesTypeOK /\ ScreenTypeOK /\ RuleTypeOK /\ EngineTypeOK /\ ShortTypeOK
    /\ TerminalTypeOK /\ SessionsTypeOK /\ MirrorTypeOK /\ CopierTypeOK

\* A service that no request arrives for starts in one of its initial states.
PlatformInit ==
    /\ ArrivalInit
    /\ IdentityInit /\ KeysInit /\ DemoInit /\ RoutingInit /\ ChatInit
    /\ NoticesInit /\ ScreenInit /\ RuleInit /\ EngineInit /\ ShortInit
    /\ TerminalInit /\ SessionsInit /\ MirrorInit /\ CopierInit
    /\ Serves("keys") \/ key[0] = NoKey
    /\ Serves("pairs") \/ tables = CHOOSE t \in Tables : TRUE
    /\ Serves("chat") \/ threads = {}
    /\ Serves("notices") \/ plan = CHOOSE p \in Plan : p.status = "active" /\ p.ends # 0

UsersAreServed ==
    /\ \/ Serves("identity") /\ IdentityNext /\ UNCHANGED <<keyVars, demoVars>>
       \/ Serves("keys") /\ KeysNext /\ UNCHANGED <<userVars, demoVars>>
       \/ Serves("demos") /\ DemoNext /\ UNCHANGED <<userVars, keyVars>>
    /\ UNCHANGED <<routingVars, chatVars, noticeVars, screenVars, ruleVars, engineVars, shortVars,
                   terminalVars, sessionVars, mirrorVars, copierVars>>

WordsAreServed ==
    /\ \/ Serves("chat") /\ ChatNext /\ UNCHANGED noticeVars
       \/ Serves("notices") /\ NoticesNext /\ UNCHANGED chatVars
    /\ UNCHANGED <<userVars, keyVars, demoVars, routingVars, screenVars, ruleVars, engineVars,
                   shortVars, terminalVars, sessionVars, mirrorVars, copierVars>>

ChartsAreServed ==
    /\ \/ Serves("screens") /\ ScreenNext /\ UNCHANGED <<ruleVars, engineVars, shortVars>>
       \/ Serves("rules") /\ ShowFrame /\ UNCHANGED <<screenVars, engineVars, shortVars>>
       \/ Serves("engines") /\ EngineNext /\ UNCHANGED <<screenVars, ruleVars, shortVars>>
       \/ Serves("shorts") /\ ShortNext /\ UNCHANGED <<screenVars, ruleVars, engineVars>>
    /\ UNCHANGED <<userVars, keyVars, demoVars, routingVars, chatVars, noticeVars,
                   terminalVars, sessionVars, mirrorVars, copierVars>>

PairsAreServed ==
    /\ Serves("pairs") /\ RoutingNext
    /\ UNCHANGED <<userVars, keyVars, demoVars, chatVars, noticeVars, screenVars, ruleVars, engineVars,
                   shortVars, terminalVars, sessionVars, mirrorVars, copierVars>>

TradesAreServed ==
    /\ \/ Serves("terminal") /\ TerminalNext /\ UNCHANGED <<sessionVars, mirrorVars, copierVars>>
       \/ Serves("sessions") /\ SessionsNext /\ UNCHANGED <<terminalVars, mirrorVars, copierVars>>
       \/ Serves("mirror") /\ MirrorNext /\ UNCHANGED <<terminalVars, sessionVars, copierVars>>
       \/ Serves("copier") /\ CopierNext /\ UNCHANGED <<terminalVars, sessionVars, mirrorVars>>
    /\ UNCHANGED <<userVars, keyVars, demoVars, routingVars, chatVars, noticeVars,
                   screenVars, ruleVars, engineVars, shortVars>>

PlatformNext ==
    /\ UsersAreServed \/ WordsAreServed \/ ChartsAreServed \/ PairsAreServed \/ TradesAreServed
    /\ UNCHANGED arriving

PlatformSpec == PlatformInit /\ [][PlatformNext]_platformVars
=============================================================================
