------------------------------ MODULE LogProxy ------------------------------
(***************************************************************************)
(* The redis log proxy: the connection handler (sc/resper.go), the filter  *)
(* whose rules a monitor goroutine refreshes (sc/filter), and the reporter *)
(* that counts commands and forgets keys (sc/metrics).                     *)
(*                                                                         *)
(* A handler serves one command at a time. RPUSH consults the filter three *)
(* times, each under its own read lock: IsExistInFilterList, GetFilterRule *)
(* and GetMSPRateLimit; each is a step, and the rules may change between   *)
(* them. rediscluster and the rate limiter are external here.              *)
(***************************************************************************)
EXTENDS Integers, FiniteSets

CONSTANTS
    Conns,         \* client connections
    Keys,          \* log keys
    OwnKey,        \* Log.LogKey: the proxy's own log key
    ScLog,         \* the key "sc_log"
    Shards,        \* sc_log_1 .. sc_log_N, N = Log.ScLogNum
    Nothing,       \* no unit for a key; no map served yet
    Enable,        \* Filter.Enable
    RemoteRules,   \* the rule maps the MSP may serve
    DefaultExpire, \* 600
    Cmds,          \* the commands the clients send
    MaxReqs,       \* bound: commands on each connection
    MaxLen         \* bound: length of a list

\* A rule: limit is rate_limit, samp sampling_rate, warn warning_length and
\* len the length of the list when the rules were built.
Rules == [limit : Int, samp : Nat, expire : Int, warn : Nat, len : Nat]

\* The counters of a key.
Units == [rpush : Nat, lpop : Nat]

ASSUME ProxyAssumption ==
    /\ OwnKey \in Keys /\ ScLog \in Keys /\ Shards \cap Keys = {}
    /\ Enable \in BOOLEAN
    /\ \A map \in RemoteRules : DOMAIN map \subseteq Keys /\ map \in [DOMAIN map -> Rules]
    /\ Nothing \notin RemoteRules \cup Units
    /\ DefaultExpire \in Nat \ {0}
    /\ MaxReqs \in Nat /\ MaxLen \in Nat

ListKeys == Keys \cup Shards

\* The key a list is counted under: the shards of sc_log count as sc_log.
UnitOf(k) == IF k \in Shards THEN ScLog ELSE k

VARIABLES
    rules,    \* filter.FilterRuleData.RuleDataMAP, a function on the keys listed
    mpc,      \* where the rule monitor is
    resp,     \* respData.LogKeyRules, as a map
    served,   \* HISTORY: the last map the MSP served, Nothing if none yet
    list,     \* EXTERNAL: the length of each redis list
    units,    \* Reporter.ReporterUnit: [rpush, lpop] counts, Nothing if absent
    cpc,      \* where ClearKey is
    cunits,   \* the keys ClearKey found counted
    ckeys,    \* the keys it is about to delete
    pc,       \* where each handler is
    key,      \* the key of the command
    dest,     \* the list it goes to
    rule,     \* what GetFilterRule returned
    verdict,  \* why the last command was refused, or "ok"
    reqs,     \* commands read on each connection
    during,   \* HISTORY: what the rules have said of its key while the command ran
    lapsed    \* HISTORY: the keys unlisted at some time of this round of ClearKey

filterVars == <<rules, mpc, resp, served>>
reportVars == <<units, cpc, cunits, ckeys>>
connVars   == <<pc, key, dest, rule, verdict, reqs>>
procVars   == <<filterVars, reportVars, connVars, list>>
vars       == <<procVars, during, lapsed>>

Empty == [k \in {} |-> Nothing]
Listed(map) == DOMAIN map

\* The rule the proxy adds for its own key: every other field is zero.
OwnRule == [limit |-> -1, samp |-> 0, expire |-> 0, warn |-> 0, len |-> 0]

WithOwn(map) ==
    [k \in Listed(map) \cup {OwnKey} |-> IF k = OwnKey THEN OwnRule ELSE map[k]]

-----------------------------------------------------------------------------
(* StartRuleMonitor *)

\* Mutant: the proxy's own key is left out of a map that was fetched.
FetchOkBare ==
    /\ Enable /\ mpc = "fetch"
    /\ \E map \in RemoteRules : resp' = map /\ served' = map
    /\ mpc' = "build"
    /\ UNCHANGED <<rules, reportVars, connVars, list>>

\* The HTTP request succeeds and its body is JSON: it replaces respData, and
\* the rule for the proxy's own key is appended.
FetchOk ==
    /\ Enable /\ mpc = "fetch"
    /\ \E map \in RemoteRules : resp' = WithOwn(map) /\ served' = map
    /\ mpc' = "build"
    /\ UNCHANGED <<rules, reportVars, connVars, list>>

\* Mutant: a failed request forgets the rules.
FetchFailForgets ==
    /\ Enable /\ mpc = "fetch"
    /\ resp' = WithOwn(Empty)
    /\ mpc' = "build"
    /\ UNCHANGED <<rules, served, reportVars, connVars, list>>

\* It fails, or the body is not JSON: a monitor that has rules keeps them,
\* one that has none goes on with the rule for the proxy's own key.
FetchFail ==
    /\ Enable /\ mpc = "fetch"
    /\ IF Listed(resp) = {}
       THEN resp' = WithOwn(Empty) /\ mpc' = "build"
       ELSE UNCHANGED <<resp, mpc>>
    /\ UNCHANGED <<rules, served, reportVars, connVars, list>>

\* LLEN of the key, and of the shards of sc_log; 0 if LLEN fails.
ListLen(k) == LET sum[S \in SUBSET Shards] ==
                      IF S = {} THEN 0
                      ELSE LET x == CHOOSE x \in S : TRUE IN list[x] + sum[S \ {x}]
              IN  list[k] + (IF k = ScLog THEN sum[Shards] ELSE 0)

Built(failed) ==
    [k \in Listed(resp) |-> [resp[k] EXCEPT !.len = IF k \in failed THEN 0 ELSE ListLen(k)]]

\* The new map is built without the lock and published under it. (The LLENs
\* of one round are taken together.)
BuildOk ==
    /\ mpc = "build"
    /\ \E failed \in {{}, Keys} : rules' = Built(failed)
    /\ mpc' = "fetch"
    /\ UNCHANGED <<resp, served, reportVars, connVars, list>>

\* No node for a key, or no limiter for a key with a limit: nothing is
\* published.
BuildFail ==
    /\ mpc = "build"
    /\ mpc' = "fetch"
    /\ UNCHANGED <<rules, resp, served, reportVars, connVars, list>>

-----------------------------------------------------------------------------
(* The handler: reading a command *)

Idle(c) == pc[c] = "read" /\ reqs[c] < MaxReqs

Refuse(c, why) ==
    /\ pc' = [pc EXCEPT ![c] = "closed"]
    /\ verdict' = [verdict EXCEPT ![c] = why]

\* EOF, a decoding error, a reply that is not an array of bulk strings, too
\* few arguments or an unknown command: an error reply and conn.Close.
BadCommand(c) ==
    /\ Idle(c)
    /\ Refuse(c, "bad")
    /\ UNCHANGED <<filterVars, reportVars, list, key, dest, rule, reqs>>

Command(c, cmd, k, next) ==
    /\ cmd \in Cmds /\ Idle(c)
    /\ reqs' = [reqs EXCEPT ![c] = @ + 1]
    /\ key' = [key EXCEPT ![c] = UnitOf(k)]
    /\ dest' = [dest EXCEPT ![c] = k]
    /\ pc' = [pc EXCEPT ![c] = next]
    /\ verdict' = [verdict EXCEPT ![c] = "none"]
    /\ UNCHANGED <<filterVars, list, rule>>

-----------------------------------------------------------------------------
(* RPUSH *)

NilRule == [limiter |-> FALSE, samp |-> 0, expire |-> 0, drop |-> FALSE]

\* IsExistInFilterList
Rpush(c, k) ==
    /\ Enable => k \in Listed(rules)
    /\ Command(c, "RPUSH", k, "rule")
    /\ UNCHANGED reportVars

\* Not in the whitelist: alert and close.
RpushUnlisted(c, k) ==
    /\ Enable /\ k \notin Listed(rules)
    /\ "RPUSH" \in Cmds /\ Idle(c)
    /\ Refuse(c, "unlisted")
    /\ reqs' = [reqs EXCEPT ![c] = @ + 1]
    /\ key' = [key EXCEPT ![c] = k]
    /\ UNCHANGED <<filterVars, reportVars, list, dest, rule>>

\* Mutant: the rule is taken from the map that is being built.
FilterRuleFetched(k) ==
    IF ~Enable \/ k \notin Listed(resp) THEN NilRule
    ELSE [limiter |-> resp[k].limit >= 0, samp |-> resp[k].samp,
          expire |-> resp[k].expire, drop |-> resp[k].len >= resp[k].warn]

\* GetFilterRule; the zero values if the key has gone since.
FilterRule(k) ==
    IF ~Enable \/ k \notin Listed(rules) THEN NilRule
    ELSE [limiter |-> rules[k].limit >= 0, samp |-> rules[k].samp,
          expire |-> rules[k].expire, drop |-> rules[k].len >= rules[k].warn]

\* if expire <= 0 { expire = 600 }
RpushRule(c) ==
    /\ pc[c] = "rule"
    /\ rule' = [rule EXCEPT ![c] =
                  [FilterRule(key[c]) EXCEPT !.expire = IF @ <= 0 THEN DefaultExpire ELSE @]]
    /\ pc' = [pc EXCEPT ![c] = "sample"]
    /\ UNCHANGED <<filterVars, reportVars, list, key, dest, verdict, reqs>>

\* fastrand.Uint32n(samplingRate) != 0, then the length.
RpushDrop(c) ==
    /\ pc[c] = "sample"
    /\ \/ rule[c].samp > 1 /\ Refuse(c, "sampled")
       \/ rule[c].drop /\ Refuse(c, "length")
    /\ UNCHANGED <<filterVars, reportVars, list, key, dest, rule, reqs>>

\* sc_log is spread over its shards.
RpushKeep(c) ==
    /\ pc[c] = "sample" /\ ~rule[c].drop
    /\ \E d \in (IF key[c] = ScLog THEN {ScLog} \cup Shards ELSE {key[c]}) :
         dest' = [dest EXCEPT ![c] = d]
    /\ pc' = [pc EXCEPT ![c] = IF rule[c].limiter THEN "limit" ELSE "count"]
    /\ UNCHANGED <<filterVars, reportVars, list, key, rule, verdict, reqs>>

\* rateLimiter.Get: capacity is left, or the limiter failed (Remaining is 0).
LimitOk(c) ==
    /\ pc[c] = "limit"
    /\ pc' = [pc EXCEPT ![c] = "count"]
    /\ UNCHANGED <<filterVars, reportVars, list, key, dest, rule, verdict, reqs>>

\* Remaining < 0: the limiter is exhausted.
LimitExhausted(c) ==
    /\ pc[c] = "limit"
    /\ pc' = [pc EXCEPT ![c] = "exhausted"]
    /\ UNCHANGED <<filterVars, reportVars, list, key, dest, rule, verdict, reqs>>

\* GetMSPRateLimit of the list key; -1 for a key that has no rule.
MSPRateLimit(k) == IF k \in Listed(rules) THEN rules[k].limit ELSE -1

LimitCheck(c) ==
    /\ pc[c] = "exhausted"
    /\ IF MSPRateLimit(dest[c]) > 0
       THEN Refuse(c, "limited")
       ELSE pc' = [pc EXCEPT ![c] = "over"] /\ UNCHANGED verdict
    /\ UNCHANGED <<filterVars, reportVars, list, key, dest, rule, reqs>>

\* units[k] with one more command of a kind; a missing unit starts at zero.
Counted(k, f) ==
    LET u == IF units[k] = Nothing THEN [rpush |-> 0, lpop |-> 0] ELSE units[k]
    IN  [units EXCEPT ![k] = [u EXCEPT ![f] = @ + 1]]

\* AddRpushCommand, under the original key. An exhausted limiter that did
\* not refuse the command leaves verdict "over".
RpushCount(c) ==
    /\ pc[c] \in {"count", "over"}
    /\ units' = Counted(key[c], "rpush")
    /\ verdict' = [verdict EXCEPT ![c] = IF pc[c] = "over" THEN "over" ELSE "none"]
    /\ pc' = [pc EXCEPT ![c] = "do"]
    /\ UNCHANGED <<filterVars, list, key, dest, rule, reqs, cpc, cunits, ckeys>>

\* Do fails; the element may have been appended.
RpushFail(c) ==
    /\ pc[c] = "do"
    /\ \E n \in {0, 1} :
         /\ n = 1 => list[dest[c]] < MaxLen
         /\ list' = [list EXCEPT ![dest[c]] = @ + n]
    /\ Refuse(c, "failed")
    /\ UNCHANGED <<filterVars, reportVars, key, dest, rule, reqs>>

\* The reply is written, or writing it fails.
RpushDone(c) ==
    /\ pc[c] = "do"
    /\ list[dest[c]] < MaxLen
    /\ list' = [list EXCEPT ![dest[c]] = @ + 1]
    /\ pc' \in {[pc EXCEPT ![c] = "read"], [pc EXCEPT ![c] = "closed"]}
    /\ verdict' = [verdict EXCEPT ![c] = IF @ = "over" THEN "over" ELSE "ok"]
    /\ UNCHANGED <<filterVars, reportVars, key, dest, rule, reqs>>

-----------------------------------------------------------------------------
(* The other commands *)

\* LPOP and BLPOP count the command and run it; no filter applies.
Lpop(c, k) ==
    /\ Command(c, "LPOP", k, "pop")
    /\ units' = Counted(UnitOf(k), "lpop")
    /\ UNCHANGED <<cpc, cunits, ckeys>>

Blpop(c, k) ==
    /\ Command(c, "BLPOP", k, "pop")
    /\ units' = Counted(UnitOf(k), "lpop")
    /\ UNCHANGED <<cpc, cunits, ckeys>>

\* An element or the nil reply of an empty list, which is written or not, or
\* an error, after which the element may be gone or not.
PopDone(c) ==
    /\ pc[c] = "pop"
    /\ \/ /\ list' = [list EXCEPT ![dest[c]] = IF @ > 0 THEN @ - 1 ELSE @]
          /\ pc' \in {[pc EXCEPT ![c] = "read"], [pc EXCEPT ![c] = "closed"]}
       \/ UNCHANGED list /\ pc' = [pc EXCEPT ![c] = "closed"]
    /\ UNCHANGED <<filterVars, reportVars, key, dest, rule, verdict, reqs>>

\* LLEN, PING (with KEYSDATA: GetPingData) and CLUSTERKEYNODE only read.
Llen(c, k) ==
    /\ Command(c, "LLEN", k, "answer") /\ UNCHANGED reportVars

Ping(c) ==
    /\ Command(c, "PING", key[c], "answer") /\ UNCHANGED reportVars

ClusterKeyNode(c, k) ==
    /\ Command(c, "CLUSTERKEYNODE", k, "answer") /\ UNCHANGED reportVars

Answered(c) ==
    /\ pc[c] = "answer"
    /\ pc' \in {[pc EXCEPT ![c] = "read"], [pc EXCEPT ![c] = "closed"]}
    /\ UNCHANGED <<filterVars, reportVars, list, key, dest, rule, verdict, reqs>>

\* EXTERNAL: the time to live of a list runs out.
ListExpires(k) ==
    /\ list[k] > 0
    /\ list' = [list EXCEPT ![k] = 0]
    /\ UNCHANGED <<filterVars, reportVars, connVars>>

-----------------------------------------------------------------------------
(* The reporter: ClearKey (ReportData and ReportMetrics only read) *)

CountedKeys == {k \in Keys : units[k] # Nothing}

\* ClearKey copies the units, then the rules, then deletes.
ClearUnits ==
    /\ cpc = "units"
    /\ CountedKeys # {}
    /\ cunits' = CountedKeys
    /\ cpc' = "rules"
    /\ UNCHANGED <<filterVars, units, ckeys, connVars, list>>

\* Mutant: the keys are compared with the rules that were fetched last.
ClearRulesFetched ==
    /\ cpc = "rules"
    /\ ckeys' = cunits \ Listed(resp)
    /\ cunits' = {}
    /\ cpc' = IF ckeys' = {} THEN "units" ELSE "delete"
    /\ UNCHANGED <<filterVars, units, connVars, list>>

ClearRules ==
    /\ cpc = "rules"
    /\ ckeys' = cunits \ Listed(rules)
    /\ cunits' = {}
    /\ cpc' = IF ckeys' = {} THEN "units" ELSE "delete"
    /\ UNCHANGED <<filterVars, units, connVars, list>>

\* Mutant: the keys are deleted from the copy.
ClearDeleteCopy ==
    /\ cpc = "delete"
    /\ ckeys' = {}
    /\ cpc' = "units"
    /\ UNCHANGED <<filterVars, units, cunits, connVars, list>>

ClearDelete ==
    /\ cpc = "delete"
    /\ units' = [k \in Keys |-> IF k \in ckeys THEN Nothing ELSE units[k]]
    /\ ckeys' = {}
    /\ cpc' = "units"
    /\ UNCHANGED <<filterVars, cunits, connVars, list>>

-----------------------------------------------------------------------------
Init ==
    /\ rules = Empty
    /\ mpc = "fetch"
    /\ resp = Empty
    /\ served = Nothing
    /\ list = [k \in ListKeys |-> 0]
    /\ units = [k \in Keys |-> Nothing]
    /\ cpc = "units"
    /\ cunits = {}
    /\ ckeys = {}
    /\ pc = [c \in Conns |-> "read"]
    /\ key = [c \in Conns |-> OwnKey]
    /\ dest = [c \in Conns |-> OwnKey]
    /\ rule = [c \in Conns |-> NilRule]
    /\ verdict = [c \in Conns |-> "none"]
    /\ reqs = [c \in Conns |-> 0]
    /\ during = [c \in Conns |-> {}]
    /\ lapsed = {}

Monitor == FetchOk \/ FetchFail \/ BuildOk \/ BuildFail

Reporter == ClearUnits \/ ClearRules \/ ClearDelete

Receive(c) ==
    \/ BadCommand(c) \/ Ping(c)
    \/ \E k \in Keys : Rpush(c, k) \/ RpushUnlisted(c, k) \/ Llen(c, k) \/ ClusterKeyNode(c, k)
    \/ \E k \in ListKeys : Lpop(c, k) \/ Blpop(c, k)

Proceed(c) ==
    \/ RpushRule(c) \/ RpushDrop(c) \/ RpushKeep(c)
    \/ LimitOk(c) \/ LimitExhausted(c) \/ LimitCheck(c)
    \/ RpushCount(c) \/ RpushFail(c) \/ RpushDone(c)
    \/ PopDone(c) \/ Answered(c)

\* What the rules in map say of key k.
View(map, k) ==
    LET listed == k \in Listed(map)
    IN  [listed  |-> listed,
         sampled |-> listed /\ map[k].samp > 1,
         long    |-> listed /\ map[k].len >= map[k].warn,
         limited |-> listed /\ map[k].limit > 0]

\* The history: an RPUSH meets the rules it starts with and those that are
\* published until it is over; so does a round of ClearKey.
Record ==
    /\ during' = [c \in Conns |->
                     IF pc'[c] \in {"read", "pop", "answer"} THEN {}
                     ELSE IF pc[c] = "closed" THEN during[c]
                     ELSE during[c] \cup {View(rules', key'[c])}]
    /\ lapsed' = IF cpc' = "units" THEN {} ELSE lapsed \cup (Keys \ Listed(rules'))

Step ==
    \/ Monitor \/ Reporter
    \/ \E c \in Conns : Receive(c) \/ Proceed(c)
    \/ \E k \in ListKeys : ListExpires(k)

Next == Step /\ Record

Spec == Init /\ [][Next]_vars

\* The monitor loops for ever: it leaves "fetch" at least as a failed request
\* does (whether the MSP answers is not its choice) and "build" in any case;
\* the limiter's redis is not down for ever, nor is a key without a node; a
\* handler that has read a command goes on with it; ClearKey, which is started
\* with InfluxDB, loops for ever.
FairSpec ==
    /\ Spec
    /\ WF_procVars(FetchFail \/ BuildOk \/ BuildFail)
    /\ SF_procVars(BuildOk)
    /\ \A c \in Conns : WF_procVars(Proceed(c))
    /\ WF_procVars(ClearUnits \/ ClearRules \/ ClearDelete)

\* The MSP is not down for ever either.
FairMSPSpec == FairSpec /\ SF_procVars(FetchOk)

-----------------------------------------------------------------------------
(* Properties *)

\* RPUSH reads the rules three times while the monitor replaces them. Still,
\* every refusal has a reason that the rules gave while the command ran, and a
\* command goes to redis only if meanwhile there were rules that listed its
\* key, rules that did not find its list too long and, if its limiter was
\* exhausted, rules without a limit for it; so rules that do not change decide
\* alone. The exception is sc_log, which escapes its limit on a shard.
RpushJudged ==
    Enable => \A c \in Conns :
        /\ verdict[c] = "unlisted" => (\E v \in during[c] : ~v.listed)
        /\ verdict[c] = "sampled" => (\E v \in during[c] : v.sampled)
        /\ verdict[c] = "length" => (\E v \in during[c] : v.long)
        /\ verdict[c] = "limited" => (\E v \in during[c] : v.limited)
        /\ pc[c] = "do" =>
              /\ (\E v \in during[c] : v.listed)
              /\ (\E v \in during[c] : ~v.long)
              /\ verdict[c] = "over" =>
                    dest[c] \in Shards \/ (\E v \in during[c] : ~v.limited)

\* ClearKey decides by two copies that are out of date when it deletes. Still,
\* the counters of a key that is listed all the time between the first copy
\* and the deletion survive, whatever is counted or published meanwhile.
CountersKept ==
    [][\A k \in Keys : units[k] # Nothing /\ units'[k] = Nothing => k \in lapsed]_vars

\* The rules in force list exactly the keys the MSP served last, with the
\* proxy's own; failed requests never blank them.
KeepsRules ==
    [][rules' # rules =>
         Listed(rules') = {OwnKey} \cup (IF served = Nothing THEN {} ELSE Listed(served))]_vars

\* What the MSP serves comes into force, with the proxy's own key, unless it
\* serves something else first: a round that fails while it builds the map,
\* with respData already replaced, does not lose it.
RulesPublished ==
    \A map \in RemoteRules :
        served = map ~> served # map \/ Listed(rules) = {OwnKey} \cup Listed(map)

\* A key that stays unlisted loses its counters, again and again if commands
\* go on creating them: ClearKey works on copies, but what it misses in one
\* round it finds in a later one.
UnlistedForgotten ==
    \A k \in Keys : <>[](k \notin Listed(rules)) => []<>(units[k] = Nothing)
=============================================================================
