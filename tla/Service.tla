-------------------------------- MODULE Service --------------------------------
(***************************************************************************)
(* What the handlers of the services have in common.  A behaviour has one  *)
(* workload: some calls, each served by a request of its own, begun at any *)
(* time.  A request moves from one database round trip to the next, between *)
(* which everybody else may act; it may stop there, because the process    *)
(* dies or the database answers with an error.  Two equal calls are a      *)
(* client's double tap or retry.                                           *)
(*                                                                         *)
(* The wallet is the abstract one of Ledger: it posts a key at most once,  *)
(* whoever asks and however often.  `day` is the calendar.                 *)
(***************************************************************************)
EXTENDS Integers, FiniteSets, Sequences, SequencesExt, FiniteSetsExt, Functions

CONSTANTS
    Workloads   \* the sets of calls to check: [calls, stops, days, patient]

ASSUME WorkloadAssumption ==
    \A w \in Workloads :
        IsFiniteSet(DOMAIN w.calls) /\ w.stops \in Nat /\ w.days \in Nat \ {0}

VARIABLES
    load,       \* the workload of this behaviour
    pc, job,    \* where each request is, and what it has read so far
    ledger,     \* the keys the wallet has posted
    stops,      \* how many requests have stopped half way
    day         \* the date

serviceVars == <<load, pc, job, ledger, stops, day>>

Requests == DOMAIN load.calls
call(r) == load.calls[r]

Over == {"done", "failed", "stopped"}

ServiceInit ==
    /\ load \in Workloads
    /\ pc = [r \in DOMAIN load.calls |-> "idle"]
    /\ job = [r \in DOMAIN load.calls |-> <<>>]
    /\ ledger = {} /\ stops = 0 /\ day = 1

\* A request whose call is op begins; equal calls begin in their order.  In a
\* patient workload a call is made when the one before has been answered.
Begins(r, op) ==
    /\ pc[r] = "idle" /\ call(r).op = op
    /\ load.patient => \A s \in Requests : pc[s] \in Over \cup {"idle"}
    /\ \A s \in Requests : s < r /\ call(s) = call(r) => pc[s] # "idle"

Goes(r, to) == pc' = [pc EXCEPT ![r] = to] /\ UNCHANGED <<load, stops, day>>

\* The record f with the fields of g, new ones or instead of its own.
Override(f, g) ==
    [x \in DOMAIN f \cup DOMAIN g |-> IF x \in DOMAIN g THEN g[x] ELSE f[x]]

\* The function f with the value v for x, a new x or not.
Put(f, x, v) == [y \in DOMAIN f \cup {x} |-> IF y = x THEN v ELSE f[y]]

Learns(r, fields) == job' = [job EXCEPT ![r] = Override(@, fields)]

\* save() of a document: the fields that differ from what was read are written.
Saves(current, read, new) ==
    [x \in DOMAIN current |-> IF new[x] # read[x] THEN new[x] ELSE current[x]]

\* wallet.credit and wallet.debit: once per key.
Posts(k) == ledger' = ledger \cup {k}

\* r is at l, or stopped there.
GotTo(r, l) == pc[r] = l \/ (pc[r] = "stopped" /\ job[r].at = l)

\* The request goes on without having touched the wallet.
Passes(r, to) == Goes(r, to) /\ UNCHANGED <<job, ledger>>

\* The process dies, or the database fails, before a round trip of r.
Stop(r) ==
    /\ pc[r] \notin Over \cup {"idle"} /\ stops < load.stops
    /\ stops' = stops + 1
    /\ pc' = [pc EXCEPT ![r] = "stopped"]
    /\ Learns(r, [at |-> pc[r]])
    /\ UNCHANGED <<load, ledger, day>>

Midnight ==
    /\ day < load.days
    /\ day' = day + 1
    /\ UNCHANGED <<load, pc, job, ledger, stops>>

Environment == Midnight \/ \E r \in Requests : Stop(r)
==============================================================================
