------------------------------- MODULE TTLMap -------------------------------
(***************************************************************************)
(* What the memory cache promises its callers, as if every operation were  *)
(* instantaneous: a map whose entries vanish the moment they expire.       *)
(* Cleaning, the janitor and eviction callbacks cannot be seen here. A     *)
(* write may always be refused because the map is full.                    *)
(***************************************************************************)
EXTENDS Integers

CONSTANTS Clients, Keys, Vals, NoVal, NoEntry, MaxClock

VARIABLES
    m,    \* the entries, [val, exp], exp = 0 for an entry that never expires
    now,  \* the time
    out   \* the answer each client got last

vars == <<m, now, out>>

Entries == [val : Vals, exp : Nat]

Alive(e, t) == e.exp = 0 \/ t <= e.exp

\* The entry as the callers see it at time t.
Seen(e, t) == IF e # NoEntry /\ Alive(e, t) THEN e ELSE NoEntry

Answer(c, st, v) == out' = [out EXCEPT ![c] = [st |-> st, val |-> v]]

Init ==
    /\ m = [k \in Keys |-> NoEntry]
    /\ now = 0
    /\ out = [c \in Clients |-> [st |-> "none", val |-> NoVal]]

\* The time passes and what has expired vanishes.
Tick ==
    /\ now < MaxClock
    /\ now' = now + 1
    /\ m' = [k \in Keys |-> Seen(m[k], now + 1)]
    /\ UNCHANGED out

\* An entry that the map may hold now.
Fits(e) == e = NoEntry \/ (e \in Entries /\ Alive(e, now))

\* Store an entry; one that is already expired is never seen.
Store(c, k, st) ==
    /\ Fits(m'[k])
    /\ m' = [m EXCEPT ![k] = m'[k]]
    /\ Answer(c, st, NoVal)
    /\ UNCHANGED now

Put(c, k) == Store(c, k, "ok")

Fail(c, st) == Answer(c, st, NoVal) /\ UNCHANGED <<m, now>>

Add(c, k) == IF m[k] = NoEntry THEN Store(c, k, "added") ELSE Fail(c, "exists")

Replace(c, k) == m[k] # NoEntry /\ Store(c, k, "replaced")

Get(c, k) ==
    /\ IF m[k] = NoEntry THEN Answer(c, "missing", NoVal) ELSE Answer(c, "ok", m[k].val)
    /\ UNCHANGED <<m, now>>

\* The value changes to the one that is returned, the expiration does not.
Modify(c, k) ==
    /\ m[k] # NoEntry
    /\ out'[c].val \in Vals
    /\ m' = [m EXCEPT ![k].val = out'[c].val]
    /\ Answer(c, "ok", out'[c].val)
    /\ UNCHANGED now

Missing(c, k) == m[k] = NoEntry /\ Fail(c, "missing")

Delete(c, k) ==
    /\ m' = [m EXCEPT ![k] = NoEntry]
    /\ Answer(c, "ok", NoVal)
    /\ UNCHANGED now

Flush(c) ==
    /\ m' = [k \in Keys |-> NoEntry]
    /\ Answer(c, "ok", NoVal)
    /\ UNCHANGED now

\* Load: every key that has no entry may get one.
Load(c) ==
    /\ m' = [k \in Keys |-> m'[k]]
    /\ \A k \in Keys : IF m[k] # NoEntry THEN m'[k] = m[k] ELSE Fits(m'[k])
    /\ Answer(c, "ok", NoVal)
    /\ UNCHANGED now

Next ==
    \/ Tick
    \/ \E c \in Clients :
         \/ Flush(c) \/ Load(c)
         \/ Fail(c, "full") \/ Fail(c, "type")
         \/ \E k \in Keys :
              \/ Get(c, k) \/ Delete(c, k) \/ Missing(c, k)
              \/ Put(c, k) \/ Add(c, k) \/ Replace(c, k)
              \/ Modify(c, k)

Spec == Init /\ [][Next]_vars
=============================================================================
