--------------------------- MODULE LogProxyProofs ---------------------------
(***************************************************************************)
(* Proofs about the log proxy, for any connections, keys and maps of rules *)
(* that the MSP serves: what RPUSH does with a command is what the rules   *)
(* said while it ran, the counters of a listed key survive ClearKey, and a *)
(* change of the rules in force is to what was served last; and about the  *)
(* server that runs its handlers, for any connections.                     *)
(***************************************************************************)
EXTENDS LogProxy, BareServer, TLAPS

-----------------------------------------------------------------------------
(* The inductive invariant *)

Places == {"read", "closed", "rule", "sample", "limit", "exhausted", "over", "count", "do",
           "pop", "answer"}

\* After GetFilterRule has let the command pass.
Kept == {"limit", "exhausted", "over", "count", "do"}

\* The keys the MSP served last.
ServedKeys == IF served = Nothing THEN {} ELSE Listed(served)

\* Only known keys are listed. respData is what was served last, with the
\* proxy's own key; it has that key alone after a failure at the start, and
\* nothing before.
FilterOK ==
    /\ mpc \in {"fetch", "build"}
    /\ Listed(rules) \subseteq Keys /\ Listed(resp) \subseteq Keys
    /\ Listed(resp) # {} \/ mpc = "build" => Listed(resp) = {OwnKey} \cup ServedKeys
    /\ Listed(resp) = {} => served = Nothing

\* From its first copy on ClearKey has a record of the keys that were
\* unlisted, and it is about to delete none but those.
ReportOK ==
    /\ units \in [Keys -> Units \cup {Nothing}]
    /\ cpc \in {"units", "rules", "delete"}
    /\ cpc # "units" => Keys \ Listed(rules) \subseteq lapsed
    /\ cpc = "rules" => cunits \subseteq Keys
    /\ cpc = "delete" => ckeys \subseteq lapsed

ConnOK ==
    /\ pc \in [Conns -> Places]
    /\ key \in [Conns -> Keys]
    /\ DOMAIN dest = Conns /\ DOMAIN rule = Conns /\ DOMAIN verdict = Conns

\* The rules said so while the command of c ran.
SaidListed(c)    == \E v \in during[c] : v.listed
SaidUnlisted(c)  == \E v \in during[c] : ~v.listed
SaidSampled(c)   == \E v \in during[c] : v.sampled
SaidLong(c)      == \E v \in during[c] : v.long
SaidShort(c)     == \E v \in during[c] : ~v.long
SaidLimited(c)   == \E v \in during[c] : v.limited
SaidUnlimited(c) == \E v \in during[c] : ~v.limited

\* What a handler knows at each place of RequestHandleRESP.
Handler(c) ==
    /\ pc[c] \in Kept \cup {"rule", "sample"} => SaidListed(c)
    /\ pc[c] = "sample" => /\ rule[c].samp > 1 => SaidSampled(c)
                           /\ rule[c].drop => SaidLong(c)
                           /\ ~rule[c].drop => SaidShort(c)
    /\ pc[c] \in Kept => SaidShort(c) /\ dest[c] \in {key[c]} \cup Shards
    /\ pc[c] = "over" \/ (pc[c] = "do" /\ verdict[c] = "over") =>
          dest[c] \in Shards \/ SaidUnlimited(c)
    /\ pc[c] # "closed" => verdict[c] \in {"none", "over", "ok"}
    /\ verdict[c] = "unlisted" => SaidUnlisted(c)
    /\ verdict[c] = "sampled" => SaidSampled(c)
    /\ verdict[c] = "length" => SaidLong(c)
    /\ verdict[c] = "limited" => SaidLimited(c)

Inv ==
    /\ FilterOK /\ ReportOK /\ ConnOK
    /\ Enable => \A c \in Conns : Handler(c)

LEMMA InvJudges == Inv => RpushJudged
<1> SUFFICES ASSUME Inv, Enable, NEW c \in Conns
             PROVE  /\ verdict[c] = "unlisted" => SaidUnlisted(c)
                    /\ verdict[c] = "sampled" => SaidSampled(c)
                    /\ verdict[c] = "length" => SaidLong(c)
                    /\ verdict[c] = "limited" => SaidLimited(c)
                    /\ pc[c] = "do" => /\ SaidListed(c) /\ SaidShort(c)
                                       /\ verdict[c] = "over" => dest[c] \in Shards \/ SaidUnlimited(c)
    BY DEF RpushJudged, SaidUnlisted, SaidSampled, SaidLong, SaidLimited, SaidListed, SaidShort,
           SaidUnlimited
<1> QED
    BY DEF Inv, Handler, Kept

-----------------------------------------------------------------------------
(* The rules *)

LEMMA WithOwnIs ==
    ASSUME NEW map
    PROVE  Listed(WithOwn(map)) = {OwnKey} \cup Listed(map)
BY DEF WithOwn, Listed

LEMMA EmptyIs == Listed(Empty) = {}
BY DEF Empty, Listed

\* Building the map changes the lengths only.
LEMMA BuiltIs ==
    ASSUME NEW failed
    PROVE  Listed(Built(failed)) = Listed(resp)
BY DEF Built, Listed

LEMMA ViewIs ==
    ASSUME NEW map, NEW k
    PROVE  /\ View(map, k).listed <=> k \in Listed(map)
           /\ View(map, k).sampled <=> k \in Listed(map) /\ map[k].samp > 1
           /\ View(map, k).long <=> k \in Listed(map) /\ map[k].len >= map[k].warn
           /\ View(map, k).limited <=> k \in Listed(map) /\ map[k].limit > 0
BY DEF View

\* GetFilterRule repeats what the rules say of the key.
LEMMA RuleIs ==
    ASSUME Enable, NEW k, NEW e
    PROVE  LET r == [FilterRule(k) EXCEPT !.expire = e]
           IN  /\ r.samp > 1 => View(rules, k).sampled
               /\ r.drop => View(rules, k).long
               /\ ~r.drop => ~View(rules, k).long
<1> DEFINE r == [FilterRule(k) EXCEPT !.expire = e]
<1>1. CASE k \notin Listed(rules)
    <2>1. r.samp = 0 /\ r.drop = FALSE
        BY <1>1 DEF FilterRule, NilRule
    <2> QED
        BY <1>1, <2>1, ViewIs
<1>2. CASE k \in Listed(rules)
    <2>1. r.samp = rules[k].samp /\ r.drop = (rules[k].len >= rules[k].warn)
        BY <1>2 DEF FilterRule
    <2> HIDE DEF r
    <2>2. /\ r.samp > 1 => View(rules, k).sampled
          /\ r.drop => View(rules, k).long
          /\ ~r.drop => ~View(rules, k).long
        BY <1>2, <2>1, ViewIs
    <2> QED
        BY <2>2 DEF r
<1> QED
    BY <1>1, <1>2

-----------------------------------------------------------------------------
(* The monitor and the reporter *)

LEMMA InitHolds == Init => Inv
<1> SUFFICES ASSUME Init PROVE Inv
    OBVIOUS
<1>1. FilterOK
    BY EmptyIs DEF Init, FilterOK
<1>2. ReportOK
    BY DEF Init, ReportOK
<1>3. ConnOK
    BY ProxyAssumption DEF Init, ConnOK, Places
<1>4. ASSUME NEW c \in Conns PROVE Handler(c)
    BY <1>4 DEF Init, Handler, Kept
<1> QED
    BY <1>1, <1>2, <1>3, <1>4 DEF Inv

\* The actions by what they leave alone.
LEMMA MonitorAlone == Monitor => UNCHANGED <<reportVars, connVars, list>>
BY DEF Monitor, FetchOk, FetchFail, BuildOk, BuildFail

LEMMA ReporterAlone == Reporter => UNCHANGED <<filterVars, connVars, list>>
BY DEF Reporter, ClearUnits, ClearRules, ClearDelete

LEMMA ReceiveAlone == ASSUME NEW c \in Conns, Receive(c) PROVE UNCHANGED <<filterVars, rule>>
BY DEF Receive, BadCommand, Ping, Rpush, RpushUnlisted, Llen, ClusterKeyNode, Lpop, Blpop, Command

LEMMA ProceedAlone == ASSUME NEW c \in Conns, Proceed(c) PROVE UNCHANGED <<filterVars, key>>
BY DEF Proceed, RpushRule, RpushDrop, RpushKeep, LimitOk, LimitExhausted, LimitCheck, RpushCount,
       RpushFail, RpushDone, PopDone, Answered

LEMMA FilterHolds ==
    ASSUME FilterOK, [Step]_vars
    PROVE  FilterOK'
<1>1. CASE FetchOk
    <2>1. PICK map \in RemoteRules : resp' = WithOwn(map) /\ served' = map
        BY <1>1 DEF FetchOk
    <2>2. mpc' = "build" /\ rules' = rules
        BY <1>1 DEF FetchOk
    <2>3. Listed(resp') = {OwnKey} \cup Listed(map) /\ map # Nothing /\ Listed(map) \subseteq Keys
        BY <2>1, WithOwnIs, ProxyAssumption DEF Listed
    <2> QED
        BY <2>1, <2>2, <2>3, ProxyAssumption DEF FilterOK, Listed, ServedKeys
<1>2. CASE FetchFail /\ Listed(resp) = {}
    <2>1. resp' = WithOwn(Empty) /\ mpc' = "build" /\ rules' = rules /\ served' = served
        BY <1>2 DEF FetchFail
    <2>2. Listed(resp') = {OwnKey}
        BY <2>1, EmptyIs, WithOwnIs
    <2>3. served = Nothing
        BY <1>2 DEF FilterOK
    <2> QED
        BY <2>1, <2>2, <2>3, ProxyAssumption DEF FilterOK, Listed, ServedKeys
<1>3. CASE FetchFail /\ Listed(resp) # {}
    BY <1>3 DEF FetchFail, FilterOK, Listed, ServedKeys
<1>4. CASE BuildOk
    <2>1. PICK failed \in {{}, Keys} : rules' = Built(failed)
        BY <1>4 DEF BuildOk
    <2>2. Listed(rules') = Listed(resp)
        BY <2>1, BuiltIs
    <2>3. mpc = "build" /\ mpc' = "fetch" /\ UNCHANGED <<resp, served>>
        BY <1>4 DEF BuildOk
    <2> QED
        BY <2>2, <2>3 DEF FilterOK, Listed, ServedKeys
<1>5. CASE BuildFail
    BY <1>5 DEF BuildFail, FilterOK, Listed, ServedKeys
<1>6. CASE UNCHANGED filterVars
    BY <1>6 DEF filterVars, FilterOK, Listed, ServedKeys
<1>7. Monitor \/ UNCHANGED filterVars
    <2>1. (\E k \in ListKeys : ListExpires(k)) \/ UNCHANGED vars => UNCHANGED filterVars
        BY DEF ListExpires, vars, procVars
    <2>2. Reporter => UNCHANGED filterVars
        BY ReporterAlone
    <2>3. (\E c \in Conns : Receive(c) \/ Proceed(c)) => UNCHANGED filterVars
        BY ReceiveAlone, ProceedAlone
    <2> QED
        BY <2>1, <2>2, <2>3 DEF Step
<1> QED
    BY <1>1, <1>2, <1>3, <1>4, <1>5, <1>6, <1>7 DEF Monitor

\* Counting a command leaves a unit for its key.
LEMMA CountedIs ==
    ASSUME units \in [Keys -> Units \cup {Nothing}], NEW k \in Keys, NEW f \in {"rpush", "lpop"}
    PROVE  /\ Counted(k, f) \in [Keys -> Units \cup {Nothing}]
           /\ \A j \in Keys : Counted(k, f)[j] = Nothing => units[j] = Nothing
<1> DEFINE u == IF units[k] = Nothing THEN [rpush |-> 0, lpop |-> 0] ELSE units[k]
           w == [u EXCEPT ![f] = @ + 1]
<1>1. u \in Units
    BY DEF Units
<1> HIDE DEF u
<1>2. w \in Units
    <2>1. CASE f = "rpush"
        BY <1>1, <2>1 DEF Units
    <2>2. CASE f = "lpop"
        BY <1>1, <2>2 DEF Units
    <2> QED
        BY <2>1, <2>2
<1>3. Counted(k, f) = [units EXCEPT ![k] = w]
    BY DEF Counted, u
<1> HIDE DEF w
<1>4. w # Nothing
    BY <1>2, ProxyAssumption
<1> QED
    BY <1>2, <1>3, <1>4

\* A step that is not the reporter's: it counts a command or leaves the
\* reporter alone.
LEMMA CountsOnly ==
    ASSUME ConnOK, [Step]_vars, ~Reporter
    PROVE  /\ UNCHANGED <<cpc, cunits, ckeys>>
           /\ \/ units' = units
              \/ \E k \in Keys, f \in {"rpush", "lpop"} : units' = Counted(k, f)
<1>1. CASE Monitor \/ UNCHANGED vars \/ \E k \in ListKeys : ListExpires(k)
    BY <1>1, MonitorAlone DEF ListExpires, vars, procVars, reportVars
<1>2. ASSUME NEW c \in Conns, Receive(c)
      PROVE  /\ UNCHANGED <<cpc, cunits, ckeys>>
             /\ \/ units' = units
                \/ \E k \in Keys, f \in {"rpush", "lpop"} : units' = Counted(k, f)
    <2>1. CASE \E k \in ListKeys : Lpop(c, k) \/ Blpop(c, k)
        <3>1. PICK k \in ListKeys : Lpop(c, k) \/ Blpop(c, k)
            BY <2>1
        <3>2. UnitOf(k) \in Keys
            BY ProxyAssumption DEF UnitOf, ListKeys
        <3> QED
            BY <3>1, <3>2 DEF Lpop, Blpop
    <2>2. CASE ~\E k \in ListKeys : Lpop(c, k) \/ Blpop(c, k)
        BY <1>2, <2>2 DEF Receive, BadCommand, Ping, Rpush, RpushUnlisted, Llen, ClusterKeyNode,
                          reportVars
    <2> QED
        BY <2>1, <2>2
<1>3. ASSUME NEW c \in Conns, Proceed(c)
      PROVE  /\ UNCHANGED <<cpc, cunits, ckeys>>
             /\ \/ units' = units
                \/ \E k \in Keys, f \in {"rpush", "lpop"} : units' = Counted(k, f)
    <2>1. key[c] \in Keys
        BY DEF ConnOK
    <2> QED
        BY <1>3, <2>1 DEF Proceed, RpushRule, RpushDrop, RpushKeep, LimitOk, LimitExhausted,
                          LimitCheck, RpushCount, RpushFail, RpushDone, PopDone, Answered, reportVars
<1> QED
    BY <1>1, <1>2, <1>3 DEF Step

LEMMA ReportHolds ==
    ASSUME ConnOK, ReportOK, [Next]_vars
    PROVE  /\ ReportOK'
           /\ \A k \in Keys : units[k] # Nothing /\ units'[k] = Nothing => k \in lapsed
<1>0. CASE UNCHANGED vars
    BY <1>0 DEF vars, procVars, filterVars, reportVars, ReportOK, Listed
<1> SUFFICES ASSUME Step, Record PROVE
           /\ ReportOK'
           /\ \A k \in Keys : units[k] # Nothing /\ units'[k] = Nothing => k \in lapsed
    BY <1>0 DEF Next
<1>1. lapsed' = IF cpc' = "units" THEN {} ELSE lapsed \cup (Keys \ Listed(rules'))
    BY DEF Record
<1>2. CASE Reporter
    <2>1. rules' = rules
        BY <1>2, ReporterAlone DEF filterVars
    <2>2. CASE ClearUnits
        BY <1>1, <2>1, <2>2 DEF ClearUnits, CountedKeys, ReportOK, Listed
    <2>3. CASE ClearRules
        BY <1>1, <2>1, <2>3 DEF ClearRules, ReportOK, Listed
    <2>4. CASE ClearDelete
        BY <1>1, <2>1, <2>4 DEF ClearDelete, ReportOK, Listed
    <2> QED
        BY <1>2, <2>2, <2>3, <2>4 DEF Reporter
<1>3. CASE ~Reporter
    <2>1. UNCHANGED <<cpc, cunits, ckeys>>
        BY <1>3, CountsOnly
    <2>2. /\ units' \in [Keys -> Units \cup {Nothing}]
          /\ \A k \in Keys : units'[k] = Nothing => units[k] = Nothing
        <3>1. units \in [Keys -> Units \cup {Nothing}]
            BY DEF ReportOK
        <3>2. CASE units' = units
            BY <3>1, <3>2
        <3>3. CASE \E k \in Keys, f \in {"rpush", "lpop"} : units' = Counted(k, f)
            BY <3>1, <3>3, CountedIs
        <3> QED
            BY <1>3, <3>2, <3>3, CountsOnly
    <2> QED
        BY <1>1, <2>1, <2>2 DEF ReportOK, Listed
<1> QED
    BY <1>2, <1>3

-----------------------------------------------------------------------------
(* The handlers *)

LEMMA ConnHolds ==
    ASSUME ConnOK, [Step]_vars
    PROVE  ConnOK'
<1>1. CASE Monitor \/ Reporter \/ UNCHANGED vars \/ \E k \in ListKeys : ListExpires(k)
    <2>1. UNCHANGED connVars
        BY <1>1, MonitorAlone, ReporterAlone DEF ListExpires, vars, procVars
    <2> QED
        BY <2>1 DEF connVars, ConnOK
<1>2. ASSUME NEW c \in Conns, Receive(c)
      PROVE  ConnOK'
    <2>1. rule' = rule
        BY <1>2, ReceiveAlone
    <2>2. /\ \E p \in {"closed", "rule", "pop", "answer"} : pc' = [pc EXCEPT ![c] = p]
          /\ \E w \in {"bad", "unlisted", "none"} : verdict' = [verdict EXCEPT ![c] = w]
        BY <1>2 DEF Receive, BadCommand, Ping, Rpush, RpushUnlisted, Llen, ClusterKeyNode, Lpop,
                    Blpop, Command, Refuse
    <2>3. /\ key' = key \/ \E k \in Keys : key' = [key EXCEPT ![c] = k]
          /\ dest' = dest \/ \E k \in ListKeys : dest' = [dest EXCEPT ![c] = k]
        <3>1. \A k \in ListKeys : UnitOf(k) \in Keys
            BY ProxyAssumption DEF UnitOf, ListKeys
        <3>2. Keys \subseteq ListKeys /\ key[c] \in Keys
            BY DEF ListKeys, ConnOK
        <3> QED
            BY <1>2, <3>1, <3>2 DEF Receive, BadCommand, Ping, Rpush, RpushUnlisted, Llen,
                                    ClusterKeyNode, Lpop, Blpop, Command
    <2> QED
        BY <2>1, <2>2, <2>3 DEF ConnOK, Places
<1>3. ASSUME NEW c \in Conns, Proceed(c)
      PROVE  ConnOK'
    <2>1. key' = key
        BY <1>3, ProceedAlone
    <2>2. \E p \in Places : pc' = [pc EXCEPT ![c] = p]
        BY <1>3 DEF Proceed, RpushRule, RpushDrop, RpushKeep, LimitOk, LimitExhausted, LimitCheck,
                    RpushCount, RpushFail, RpushDone, PopDone, Answered, Refuse, Places
    <2>3. DOMAIN dest' = Conns /\ DOMAIN rule' = Conns /\ DOMAIN verdict' = Conns
        BY <1>3 DEF Proceed, RpushRule, RpushDrop, RpushKeep, LimitOk, LimitExhausted, LimitCheck,
                    RpushCount, RpushFail, RpushDone, PopDone, Answered, Refuse, ConnOK
    <2> QED
        BY <2>1, <2>2, <2>3 DEF ConnOK
<1> QED
    BY <1>1, <1>2, <1>3 DEF Step

\* What Record does for a command that is not over: it remembers everything
\* and sees the rules that are in force after the step.
LEMMA Remembers ==
    ASSUME Record, NEW c \in Conns, pc'[c] \notin {"read", "pop", "answer"}, pc[c] # "closed"
    PROVE  /\ during[c] \subseteq during'[c] /\ View(rules', key'[c]) \in during'[c]
           /\ SaidListed(c) => SaidListed(c)'
           /\ SaidUnlisted(c) => SaidUnlisted(c)'
           /\ SaidSampled(c) => SaidSampled(c)'
           /\ SaidLong(c) => SaidLong(c)'
           /\ SaidShort(c) => SaidShort(c)'
           /\ SaidLimited(c) => SaidLimited(c)'
           /\ SaidUnlimited(c) => SaidUnlimited(c)'
<1>1. during'[c] = during[c] \cup {View(rules', key'[c])}
    BY DEF Record
<1> QED
    BY <1>1 DEF SaidListed, SaidUnlisted, SaidSampled, SaidLong, SaidShort, SaidLimited,
                SaidUnlimited

\* A handler that takes no step knows what it knew.
LEMMA Waits ==
    ASSUME ConnOK, Record, NEW c \in Conns, Handler(c), pc'[c] = pc[c], key'[c] = key[c],
           dest'[c] = dest[c], rule'[c] = rule[c], verdict'[c] = verdict[c]
    PROVE  Handler(c)'
<1>1. CASE pc[c] \in {"read", "pop", "answer"}
    BY <1>1 DEF Handler, Kept
<1>2. CASE pc[c] = "closed"
    <2>1. during'[c] = during[c]
        BY <1>2 DEF Record
    <2> QED
        BY <1>2, <2>1 DEF Handler, Kept, SaidListed, SaidUnlisted, SaidSampled, SaidLong, SaidShort,
                          SaidLimited, SaidUnlimited
<1>3. CASE pc[c] \notin {"read", "pop", "answer", "closed"}
    <2> HIDE DEF Record
    <2>1. /\ SaidListed(c) => SaidListed(c)'
          /\ SaidUnlisted(c) => SaidUnlisted(c)'
          /\ SaidSampled(c) => SaidSampled(c)'
          /\ SaidLong(c) => SaidLong(c)'
          /\ SaidShort(c) => SaidShort(c)'
          /\ SaidLimited(c) => SaidLimited(c)'
          /\ SaidUnlimited(c) => SaidUnlimited(c)'
        BY <1>3, Remembers
    <2> QED
        BY <2>1 DEF Handler
<1> QED
    BY <1>1, <1>2, <1>3

LEMMA Receives ==
    ASSUME Enable, ConnOK, Record, NEW c \in Conns, Handler(c), Receive(c)
    PROVE  Handler(c)'
<1>1. rules' = rules
    BY ReceiveAlone DEF filterVars
<1>2. CASE BadCommand(c)
    <2>1. pc'[c] = "closed" /\ verdict'[c] = "bad"
        BY <1>2 DEF BadCommand, Refuse, ConnOK
    <2> QED
        BY <2>1 DEF Handler, Kept
<1>3. ASSUME NEW k \in Keys, Rpush(c, k)
      PROVE  Handler(c)'
    <2>1. UnitOf(k) = k
        BY ProxyAssumption DEF UnitOf
    <2>2. pc[c] = "read" /\ pc'[c] = "rule" /\ key'[c] = k /\ verdict'[c] = "none"
        BY <1>3, <2>1 DEF Rpush, Command, Idle, ConnOK
    <2>3. View(rules', k) \in during'[c] /\ k \in Listed(rules')
        BY <1>1, <1>3, <2>2, Remembers DEF Rpush
    <2>4. SaidListed(c)'
        BY <2>3, ViewIs DEF SaidListed
    <2> QED
        BY <2>2, <2>4 DEF Handler, Kept
<1>4. ASSUME NEW k \in Keys, RpushUnlisted(c, k)
      PROVE  Handler(c)'
    <2>1. pc[c] = "read" /\ pc'[c] = "closed" /\ key'[c] = k /\ verdict'[c] = "unlisted"
        BY <1>4 DEF RpushUnlisted, Refuse, Idle, ConnOK
    <2>2. View(rules', k) \in during'[c] /\ k \notin Listed(rules')
        BY <1>1, <1>4, <2>1, Remembers DEF RpushUnlisted
    <2>3. SaidUnlisted(c)'
        BY <2>2, ViewIs DEF SaidUnlisted
    <2> QED
        BY <2>1, <2>3 DEF Handler, Kept
<1>5. CASE \/ Ping(c) \/ \E k \in Keys : Llen(c, k) \/ ClusterKeyNode(c, k)
           \/ \E k \in ListKeys : Lpop(c, k) \/ Blpop(c, k)
    <2>1. pc'[c] \in {"pop", "answer"} /\ verdict'[c] = "none"
        BY <1>5 DEF Ping, Llen, ClusterKeyNode, Lpop, Blpop, Command, ConnOK
    <2> QED
        BY <2>1 DEF Handler, Kept
<1> QED
    BY <1>2, <1>3, <1>4, <1>5 DEF Receive

LEMMA Judges ==
    ASSUME Enable, FilterOK, ConnOK, Record, NEW c \in Conns, Handler(c),
           RpushRule(c) \/ LimitCheck(c)
    PROVE  Handler(c)'
<1>1. rules' = rules /\ key' = key
    BY DEF RpushRule, LimitCheck, filterVars
<1>2. CASE RpushRule(c)
    <2> DEFINE e == IF FilterRule(key[c]).expire <= 0 THEN DefaultExpire
                    ELSE FilterRule(key[c]).expire
    <2>1. pc[c] = "rule" /\ pc'[c] = "sample" /\ verdict'[c] = verdict[c]
        BY <1>2 DEF RpushRule, ConnOK
    <2>2. rule'[c] = [FilterRule(key[c]) EXCEPT !.expire = e]
        BY <1>2 DEF RpushRule, ConnOK
    <2> HIDE DEF e
    <2>3. View(rules, key[c]) \in during'[c] /\ SaidListed(c)'
        BY <1>1, <2>1, Remembers DEF Handler
    <2>4. /\ rule'[c].samp > 1 => SaidSampled(c)'
          /\ rule'[c].drop => SaidLong(c)'
          /\ ~rule'[c].drop => SaidShort(c)'
        BY <2>2, <2>3, RuleIs DEF SaidSampled, SaidLong, SaidShort
    <2> QED
        BY <2>1, <2>3, <2>4 DEF Handler, Kept
<1>3. CASE LimitCheck(c)
    <2>1. pc[c] = "exhausted" /\ dest' = dest /\ rule' = rule
        BY <1>3 DEF LimitCheck
    <2>2. dest[c] \in {key[c]} \cup Shards
        BY <2>1 DEF Handler, Kept
    <2>3. CASE MSPRateLimit(dest[c]) > 0
        <3>1. dest[c] \in Listed(rules) /\ rules[dest[c]].limit > 0
            BY <2>3 DEF MSPRateLimit
        <3>2. dest[c] = key[c]
            BY <2>2, <3>1, ProxyAssumption DEF FilterOK
        <3>3. pc'[c] = "closed" /\ verdict'[c] = "limited"
            BY <1>3, <2>3 DEF LimitCheck, Refuse, ConnOK
        <3>4. View(rules, key[c]) \in during'[c]
            BY <1>1, <2>1, <3>3, Remembers
        <3>5. SaidLimited(c)'
            BY <3>1, <3>2, <3>4, ViewIs DEF SaidLimited
        <3> QED
            BY <3>3, <3>5 DEF Handler, Kept
    <2>4. CASE ~(MSPRateLimit(dest[c]) > 0)
        <3>1. pc'[c] = "over" /\ verdict' = verdict
            BY <1>3, <2>4 DEF LimitCheck, ConnOK
        <3>2. /\ View(rules, key[c]) \in during'[c]
              /\ SaidListed(c)' /\ SaidShort(c)'
            BY <1>1, <2>1, <3>1, Remembers DEF Handler, Kept
        <3>3. dest[c] \in Shards \/ SaidUnlimited(c)'
            <4>1. CASE dest[c] = key[c]
                <5>1. ~(key[c] \in Listed(rules) /\ rules[key[c]].limit > 0)
                    BY <2>4, <4>1 DEF MSPRateLimit
                <5> QED
                    BY <3>2, <5>1, ViewIs DEF SaidUnlimited
            <4> QED
                BY <2>2, <4>1
        <3>4. verdict[c] \in {"none", "over", "ok"}
            BY <2>1 DEF Handler
        <3> QED
            BY <1>1, <2>1, <2>2, <3>1, <3>2, <3>3, <3>4 DEF Handler, Kept
    <2> QED
        BY <2>3, <2>4
<1> QED
    BY <1>2, <1>3

\* A step of RPUSH between two reads of the rules, or after the last.
LEMMA Goes ==
    ASSUME Enable, ConnOK, Record, NEW c \in Conns, Handler(c),
           \/ RpushDrop(c) \/ RpushKeep(c) \/ LimitOk(c) \/ LimitExhausted(c)
           \/ RpushCount(c) \/ RpushFail(c) \/ RpushDone(c)
    PROVE  Handler(c)'
<1>1. CASE RpushDrop(c)
    <2>1. pc[c] = "sample" /\ pc'[c] = "closed"
        BY <1>1 DEF RpushDrop, Refuse, ConnOK
    <2>2. \/ rule[c].samp > 1 /\ verdict'[c] = "sampled"
          \/ rule[c].drop /\ verdict'[c] = "length"
        BY <1>1 DEF RpushDrop, Refuse, ConnOK
    <2>3. /\ SaidSampled(c) => SaidSampled(c)'
          /\ SaidLong(c) => SaidLong(c)'
        BY <2>1, Remembers
    <2> QED
        BY <2>1, <2>2, <2>3 DEF Handler, Kept
<1>2. CASE RpushKeep(c)
    <2>1. /\ pc[c] = "sample" /\ ~rule[c].drop /\ pc'[c] \in {"limit", "count"}
          /\ verdict' = verdict /\ key' = key
        BY <1>2 DEF RpushKeep, ConnOK
    <2>2. dest'[c] \in {key[c]} \cup Shards
        BY <1>2 DEF RpushKeep, ConnOK
    <2>3. SaidListed(c)' /\ SaidShort(c)'
        BY <2>1, Remembers DEF Handler
    <2> QED
        BY <2>1, <2>2, <2>3 DEF Handler, Kept
<1>3. CASE LimitOk(c) \/ LimitExhausted(c)
    <2>1. /\ pc[c] = "limit" /\ pc'[c] \in {"count", "exhausted"}
          /\ UNCHANGED <<verdict, key, dest>>
        BY <1>3 DEF LimitOk, LimitExhausted, ConnOK
    <2>2. SaidListed(c)' /\ SaidShort(c)'
        BY <2>1, Remembers DEF Handler, Kept
    <2> QED
        BY <2>1, <2>2 DEF Handler, Kept
<1>4. CASE RpushCount(c)
    <2>1. /\ pc[c] \in {"count", "over"} /\ pc'[c] = "do" /\ UNCHANGED <<key, dest>>
          /\ verdict'[c] = IF pc[c] = "over" THEN "over" ELSE "none"
        BY <1>4 DEF RpushCount, ConnOK
    <2>2. /\ SaidListed(c)' /\ SaidShort(c)'
          /\ SaidUnlimited(c) => SaidUnlimited(c)'
        BY <2>1, Remembers DEF Handler, Kept
    <2> QED
        BY <2>1, <2>2 DEF Handler, Kept
<1>5. CASE RpushFail(c)
    <2>1. pc'[c] = "closed" /\ verdict'[c] = "failed"
        BY <1>5 DEF RpushFail, Refuse, ConnOK
    <2> QED
        BY <2>1 DEF Handler, Kept
<1>6. CASE RpushDone(c)
    <2>1. pc'[c] \in {"read", "closed"} /\ verdict'[c] \in {"over", "ok"}
        BY <1>6 DEF RpushDone, ConnOK
    <2> QED
        BY <2>1 DEF Handler, Kept
<1> QED
    BY <1>1, <1>2, <1>3, <1>4, <1>5, <1>6

LEMMA HandlerHolds ==
    ASSUME Enable, FilterOK, ConnOK, \A d \in Conns : Handler(d), Next, NEW c \in Conns
    PROVE  Handler(c)'
<1>0. Handler(c) /\ Record
    BY DEF Next
<1>1. CASE Monitor \/ Reporter \/ \E k \in ListKeys : ListExpires(k)
    <2>1. UNCHANGED connVars
        BY <1>1, MonitorAlone, ReporterAlone DEF ListExpires
    <2> QED
        BY <1>0, <2>1, Waits DEF connVars
<1>2. CASE Receive(c)
    BY <1>0, <1>2, Receives
<1>3. CASE Proceed(c)
    <2>1. CASE RpushRule(c) \/ LimitCheck(c)
        BY <1>0, <2>1, Judges
    <2>2. CASE \/ RpushDrop(c) \/ RpushKeep(c) \/ LimitOk(c) \/ LimitExhausted(c)
               \/ RpushCount(c) \/ RpushFail(c) \/ RpushDone(c)
        BY <1>0, <2>2, Goes
    <2>3. CASE PopDone(c) \/ Answered(c)
        <3>1. pc[c] \in {"pop", "answer"} /\ pc'[c] \in {"read", "closed"} /\ verdict' = verdict
            BY <2>3 DEF PopDone, Answered, ConnOK
        <3>2. verdict[c] \in {"none", "over", "ok"}
            BY <1>0, <3>1 DEF Handler
        <3> QED
            BY <3>1, <3>2 DEF Handler, Kept
    <2> QED
        BY <1>3, <2>1, <2>2, <2>3 DEF Proceed
<1>4. ASSUME NEW d \in Conns \ {c}, Receive(d) \/ Proceed(d)
      PROVE  Handler(c)'
    <2>1. pc'[c] = pc[c] /\ verdict'[c] = verdict[c]
        BY <1>4 DEF Receive, BadCommand, Ping, Rpush, RpushUnlisted, Llen, ClusterKeyNode, Lpop,
                    Blpop, Command, Proceed, RpushRule, RpushDrop, RpushKeep, LimitOk,
                    LimitExhausted, LimitCheck, RpushCount, RpushFail, RpushDone, PopDone, Answered,
                    Refuse, ConnOK
    <2>2. key'[c] = key[c] /\ dest'[c] = dest[c] /\ rule'[c] = rule[c]
        BY <1>4 DEF Receive, BadCommand, Ping, Rpush, RpushUnlisted, Llen, ClusterKeyNode, Lpop,
                    Blpop, Command, Proceed, RpushRule, RpushDrop, RpushKeep, LimitOk,
                    LimitExhausted, LimitCheck, RpushCount, RpushFail, RpushDone, PopDone, Answered,
                    ConnOK
    <2> QED
        BY <1>0, <2>1, <2>2, Waits
<1> QED
    BY <1>1, <1>2, <1>3, <1>4 DEF Next, Step

LEMMA NextHolds ==
    ASSUME Inv, [Next]_vars
    PROVE  Inv'
<1>1. [Step]_vars
    BY DEF Next
<1>2. FilterOK' /\ ReportOK' /\ ConnOK'
    BY <1>1, FilterHolds, ReportHolds, ConnHolds DEF Inv
<1>3. ASSUME Enable, NEW c \in Conns
      PROVE  Handler(c)'
    <2>1. CASE Next
        BY <1>3, <2>1, HandlerHolds DEF Inv
    <2>2. CASE UNCHANGED vars
        <3>1. UNCHANGED <<pc, key, dest, rule, verdict, during>> /\ Handler(c)
            BY <1>3, <2>2 DEF vars, procVars, connVars, Inv
        <3> QED
            BY <3>1 DEF Handler, SaidListed, SaidUnlisted, SaidSampled, SaidLong, SaidShort,
                        SaidLimited, SaidUnlimited
    <2> QED
        BY <2>1, <2>2
<1> QED
    BY <1>2, <1>3 DEF Inv

\* The inductive invariant: the keys of respData at each place of
\* StartRuleMonitor, the keys ClearKey holds at each of its places, and what
\* the rules have said by each place of RequestHandleRESP.
THEOREM InvCorrect == Spec => []Inv
<1> QED
    BY InitHolds, NextHolds, PTL DEF Spec

-----------------------------------------------------------------------------

\* RequestHandleRESP, RPUSH: although the rules change between its three reads
\* of them, what becomes of a command is what the rules said while it ran.
THEOREM JudgedCorrect == Spec => []RpushJudged
<1> QED
    BY InvJudges, InvCorrect, PTL

\* ClearKey: the counters of a key survive a round during which it is listed.
THEOREM CountersCorrect == Spec => CountersKept
<1>1. Inv /\ [Next]_vars =>
        [\A k \in Keys : units[k] # Nothing /\ units'[k] = Nothing => k \in lapsed]_vars
    BY ReportHolds DEF Inv
<1> QED
    BY <1>1, InvCorrect, PTL DEF Spec, CountersKept

\* The rules in force change only to the keys served last and the proxy's
\* own.
LEMMA KeepsStep ==
    ASSUME Inv, [Next]_vars, rules' # rules
    PROVE  Listed(rules') = {OwnKey} \cup (IF served = Nothing THEN {} ELSE Listed(served))
<1>1. BuildOk
    <2>1. ASSUME NEW c \in Conns, Receive(c) \/ Proceed(c)
          PROVE  rules' = rules
        BY <2>1, ReceiveAlone, ProceedAlone DEF filterVars
    <2>2. Reporter \/ UNCHANGED vars \/ (\E k \in ListKeys : ListExpires(k)) => rules' = rules
        BY ReporterAlone DEF ListExpires, vars, procVars, filterVars
    <2>3. FetchOk \/ FetchFail \/ BuildFail => rules' = rules
        BY DEF FetchOk, FetchFail, BuildFail
    <2> QED
        BY <2>1, <2>2, <2>3 DEF Next, Step, Monitor
<1>2. Listed(rules') = Listed(resp) /\ mpc = "build"
    BY <1>1, BuiltIs DEF BuildOk
<1> QED
    BY <1>2 DEF Inv, FilterOK, ServedKeys

\* StartRuleMonitor replaces the rules in force only by a map that lists the
\* keys the MSP served last and the proxy's own: a round in which the MSP is
\* down, answers garbage or the limiters fail withdraws nothing.
THEOREM KeepsCorrect == Spec => KeepsRules
<1>1. Inv /\ [Next]_vars =>
        [rules' # rules =>
           Listed(rules') = {OwnKey} \cup (IF served = Nothing THEN {} ELSE Listed(served))]_vars
    BY KeepsStep
<1> QED
    BY <1>1, InvCorrect, PTL DEF Spec, KeepsRules

-----------------------------------------------------------------------------
(* The network server that runs the handlers                               *)

\* The invariant, inductive as a whole: ServerTypeOK fixes which connection the
\* serving goroutine holds, HandlersClose who has closed its socket.
ServerInv == ServerTypeOK /\ HandlersClose /\ OpenTracked /\ MapServed

\* A new server satisfies the invariant.
LEMMA ServerStarts == ServerInit => ServerInv
<1> SUFFICES ASSUME ServerInit
             PROVE  ServerInv
    OBVIOUS
<1> USE ServerAssumption
<1>1. ServerTypeOK
    BY DEF ServerInit, ServerTypeOK
<1>2. HandlersClose /\ OpenTracked
    BY DEF ServerInit, HandlersClose, OpenTracked
<1>3. MapServed
    BY DEF ServerInit, MapServed
<1> QED
    BY <1>1, <1>2, <1>3 DEF ServerInv

\* Every step of the serving goroutine, of a handler and of Close keeps it.
LEMMA ServerKeeps == ServerInv /\ [ServerNext]_serverVars => ServerInv'
<1> SUFFICES ASSUME ServerInv, [ServerNext]_serverVars
             PROVE  ServerInv'
    OBVIOUS
<1> USE ServerAssumption DEF ServerInv, ServerTypeOK, HandlersClose, OpenTracked,
                             MapServed
<1>1. CASE Listen
    BY <1>1 DEF Listen
<1>2. CASE ListenFail
    BY <1>2 DEF ListenFail
<1>3. CASE Chmod
    BY <1>3 DEF Chmod
<1>4. CASE Insert
    BY <1>4 DEF Insert
<1>5. CASE Spawn
    BY <1>5 DEF Spawn
<1>6. CASE TurnAway
    BY <1>6 DEF TurnAway
<1>7. CASE RefuseConn
    BY <1>7 DEF RefuseConn
<1>8. CASE AcceptFail
    BY <1>8 DEF AcceptFail
<1>9. CASE Teardown
    BY <1>9 DEF Teardown
<1>10. CASE Close
    BY <1>10 DEF Close
<1>11. ASSUME NEW c \in Clients, Accept(c)
       PROVE  ServerInv'
    BY <1>11 DEF Accept
<1>12. ASSUME NEW c \in Clients, HandlerReturns(c)
       PROVE  ServerInv'
    BY <1>12 DEF HandlerReturns
<1>13. ASSUME NEW c \in Clients, Cleanup(c)
       PROVE  ServerInv'
    BY <1>13 DEF Cleanup
<1>14. CASE UNCHANGED serverVars
    BY <1>14 DEF serverVars
<1> QED
    BY <1>1, <1>2, <1>3, <1>4, <1>5, <1>6, <1>7, <1>8, <1>9, <1>10, <1>11, <1>12,
       <1>13, <1>14 DEF ServerNext, Serve, Handle

\* The invariant holds in every state the server reaches.
LEMMA ServerInvariant == ServerSpec => []ServerInv
<1>1. ServerInit => ServerInv
    BY ServerStarts
<1>2. ServerInv /\ [ServerNext]_serverVars => ServerInv'
    BY ServerKeeps
<1> QED
    BY <1>1, <1>2, PTL DEF ServerSpec

\* serve, handle and Close: the teardown that ends the server finds every
\* open connection in s.conns.
THEOREM TrackedCorrect == ServerSpec => []OpenTracked
<1>1. ServerInv => OpenTracked
    BY DEF ServerInv
<1> QED
    BY <1>1, ServerInvariant, PTL

\* serve and handle: a connection leaves s.conns at the latest when its
\* goroutine ends.
THEOREM MapCorrect == ServerSpec => []MapServed
<1>1. ServerInv => MapServed
    BY DEF ServerInv
<1> QED
    BY <1>1, ServerInvariant, PTL
=============================================================================
