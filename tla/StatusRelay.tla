----------------------------- MODULE StatusRelay -----------------------------
(***************************************************************************)
(* The public status relay of the continuous paper service.  The worker on *)
(* its host posts a report every interval (continuous_paper.py publish);   *)
(* a web function checks it and writes it to Redis with one atomic script  *)
(* (paper-relay.ts); two public endpoints read it back, the second one for *)
(* external monitors.                                                      *)
(*                                                                         *)
(* The network loses, delays, repeats and reorders the posts, invocations  *)
(* of the web function overlap, and the worker's clock may be off.         *)
(***************************************************************************)
EXTENDS Integers, FiniteSets

CONSTANTS
    Idents,      \* protocol_sha256 and registered_at of a registration
    Counters,    \* receipts, and the orders and the fills of each scenario
    FreshFor,    \* isStale: oldest accepted report (150 s)
    Ahead,       \* isStale: how far ahead of this clock a report may be (15 s)
    Skews, MaxSkew,  \* what the worker's clock may be off by, and at most
    MaxTime, MaxCount, MaxPosts     \* bounds of the checked instances

ASSUME RelayAssumption ==
    /\ FreshFor \in Nat /\ Ahead \in Nat /\ MaxTime \in Nat
    /\ MaxCount \in Nat /\ MaxPosts \in Nat /\ MaxSkew \in Nat
    /\ Skews \subseteq {s \in Int : s <= MaxSkew}

VARIABLES
    now,        \* the web functions' clock, which is also the true time
    ledger,     \* the counters in the ledgers of each registration's worker
    badSince,   \* when that worker halted or failed a reconciliation, or Never
    audited,    \* its last_reconciled_at, on the worker's clock
    posts,      \* reports sent and not (or not only) delivered yet
    checked,    \* invocations that passed every check and have not written yet
    stored,     \* the four fields of the Redis key
    accepted,   \* reports the worker was told were accepted
    reading,    \* a health request between its HMGET and its clock
    health      \* the last answer of /health, and when it was ok

vars == <<now, ledger, badSince, audited, posts, checked, stored, accepted,
          reading, health>>

Never == -1000000                 \* before every time, whatever the skew
Absent == [none |-> TRUE]         \* the key does not exist

Refused == [ok |-> FALSE, at |-> 0, of |-> Absent]      \* a 503

Report == [ident : Idents, observed : Int, counts : [Counters -> Nat],
           good : BOOLEAN, audited : Int]

TypeOK ==
    /\ now \in Nat
    /\ ledger \in [Idents -> [Counters -> Nat]]
    /\ badSince \in [Idents -> Nat \cup {Never}]
    /\ audited \in [Idents -> Int]
    /\ posts \subseteq Report /\ checked \subseteq Report
    /\ accepted \subseteq Report
    /\ stored \in Report \cup {Absent}
    /\ reading \in Report \cup {Absent}
    /\ health \in [ok : BOOLEAN, at : Nat, of : Report \cup {Absent}]

Init ==
    /\ now = 0
    /\ ledger = [i \in Idents |-> [c \in Counters |-> 0]]
    /\ badSince = [i \in Idents |-> Never]
    /\ audited = [i \in Idents |-> Never]
    /\ posts = {} /\ checked = {} /\ accepted = {}
    /\ stored = Absent /\ reading = Absent
    /\ health = Refused

-----------------------------------------------------------------------------
(* The worker's host. *)

Tick ==
    /\ now < MaxTime
    /\ now' = now + 1
    /\ UNCHANGED <<ledger, badSince, audited, posts, checked, stored, accepted,
                   reading, health>>

\* Receipts, orders and fills are appended.
Append(i, c) ==
    /\ ledger[i][c] < MaxCount
    /\ ledger' = [ledger EXCEPT ![i][c] = @ + 1]
    /\ UNCHANGED <<now, badSince, audited, posts, checked, stored, accepted,
                   reading, health>>

\* A hard halt, a risk halt or a failed reconciliation: it is never withdrawn.
GoBad(i) ==
    /\ badSince[i] = Never
    /\ badSince' = [badSince EXCEPT ![i] = now]
    /\ UNCHANGED <<now, ledger, audited, posts, checked, stored, accepted,
                   reading, health>>

\* An operator puts an older copy of the ledgers back (CONTINUOUS_PAPER_SERVICE).
Restore(i) ==
    /\ ledger[i] # [c \in Counters |-> 0]
    /\ ledger' = [ledger EXCEPT ![i] = [c \in Counters |-> 0]]
    /\ UNCHANGED <<now, badSince, audited, posts, checked, stored, accepted,
                   reading, health>>

\* One interval: reconcile, take a snapshot, publish it.
Publish(i, skew) ==
    LET stamp == now + skew
        aud == IF badSince[i] = Never THEN stamp ELSE audited[i]
    IN  /\ Cardinality(posts) < MaxPosts
        /\ audited' = [audited EXCEPT ![i] = aud]
        /\ posts' = posts \cup
             {[ident |-> i, observed |-> stamp, counts |-> ledger[i],
               good |-> badSince[i] = Never, audited |-> aud]}
        /\ UNCHANGED <<now, ledger, badSince, checked, stored, accepted,
                       reading, health>>

Lose(r) ==
    /\ posts' = posts \ {r}
    /\ UNCHANGED <<now, ledger, badSince, audited, checked, stored, accepted,
                   reading, health>>

-----------------------------------------------------------------------------
(* The web function that receives a report. *)

\* paper-status.ts isStale, negated where it is used
isStale(observed) == now - observed > FreshFor \/ observed - now > Ahead

\* postPaperServiceStatus up to the script: the token, the shape of the report
\* and its run are right for every report of this run; its age may not be.
\* A repeated delivery leaves the post where it is.
Receive(r, again) ==
    /\ posts' = IF again THEN posts ELSE posts \ {r}
    /\ checked' = IF isStale(r.observed) \/ Cardinality(checked) >= MaxPosts
                  THEN checked ELSE checked \cup {r}
    /\ UNCHANGED <<now, ledger, badSince, audited, stored, accepted, reading,
                   health>>

\* Mutant: the counters of the stored report are not compared.
CodeIgnoringCounters(old, r) ==
    CASE old = Absent -> 1
      [] old # Absent /\ old.ident # r.ident -> -1
      [] old # Absent /\ old.ident = r.ident /\ r.observed < old.observed -> 0
      [] old # Absent /\ old.ident = r.ident /\ r.observed = old.observed ->
            IF old = r THEN 2 ELSE 0
      [] OTHER -> 1

\* UPDATE_STATUS_SCRIPT: what the script returns on the stored report `old`
Code(old, r) ==
    CASE old = Absent -> 1
      [] old # Absent /\ old.ident # r.ident -> -1
      [] old # Absent /\ old.ident = r.ident /\ r.observed < old.observed -> 0
      [] old # Absent /\ old.ident = r.ident /\ r.observed = old.observed ->
            IF old = r THEN 2 ELSE 0
      [] OTHER -> IF \E c \in Counters : r.counts[c] < old.counts[c]
                  THEN -1 ELSE 1

\* The script runs atomically in Redis, after any delay; the worker hears the
\* result (409 for 0 and -1) or, when the connection is gone, nothing.
Write(r, heard) ==
    LET code == Code(stored, r)
    IN  /\ checked' = checked \ {r}
        /\ stored' = IF code = 1 THEN r ELSE stored
        /\ heard => code \in {1, 2} /\ Cardinality(accepted) < MaxPosts
        /\ accepted' = IF heard THEN accepted \cup {r} ELSE accepted
        /\ UNCHANGED <<now, ledger, badSince, audited, posts, reading, health>>

-----------------------------------------------------------------------------
(* The health endpoint. *)

\* getPaperServiceStatus reads the key; readStored refuses a report of
\* another run or one whose fields disagree, which the script never stores
ReadStored ==
    /\ reading # stored
    /\ reading' = stored
    /\ UNCHANGED <<now, ledger, badSince, audited, posts, checked, stored,
                   accepted, health>>

\* Mutant: a report of any age is healthy.
OkAtAnyAge(r) == r # Absent /\ r.good

\* getPaperServiceHealth: no reason against the report
Ok(r) ==
    /\ r # Absent
    /\ ~isStale(r.observed)
    /\ r.good
    /\ ~isStale(r.audited)

Answer ==
    LET new == IF Ok(reading) THEN [ok |-> TRUE, at |-> now, of |-> reading]
                              ELSE Refused
    IN  /\ health # new
        /\ health' = new
        /\ UNCHANGED <<now, ledger, badSince, audited, posts, checked, stored,
                       accepted, reading>>

\* Reports on their way to the store.
Reporting ==
    \/ Tick
    \/ \E i \in Idents : \E c \in Counters : Append(i, c)
    \/ \E i \in Idents : Restore(i)
    \/ \E i \in Idents : \E s \in Skews : Publish(i, s)
    \/ \E r \in posts : Lose(r)
    \/ \E r \in posts : \E again \in BOOLEAN : Receive(r, again)
    \/ \E r \in checked : \E heard \in BOOLEAN : Write(r, heard)

Next ==
    \/ Reporting
    \/ \E i \in Idents : GoBad(i)
    \/ ReadStored
    \/ Answer

Spec == Init /\ [][Next]_vars

-----------------------------------------------------------------------------
(* What the relay promises. *)

NotBehind(new, old) ==
    /\ new.ident = old.ident
    /\ new.observed >= old.observed
    /\ \A c \in Counters : new.counts[c] >= old.counts[c]

\* A report the worker was told was accepted is never lost to an older one:
\* whatever was delayed, repeated or retried since, the stored report is of the
\* same registration, at least as recent and no counter of it is smaller
\* (paper-relay.ts: "prevents delayed requests, concurrent invocations or
\* retries from replacing a newer report").
AcceptedIsKept ==
    \A r \in accepted : stored # Absent /\ NotBehind(stored, r)

\* The stored report is replaced by a strictly newer one only, and two accepted
\* reports with one timestamp are one report: a monitor that compares
\* observed_at sees every change.
OneReportPerInstant ==
    [][stored' # stored => stored = Absent \/ stored'.observed > stored.observed]_vars

\* /health never vouches for a worker that halted, failed its reconciliation or
\* went away long ago: when it says ok at time t, the worker was good at some
\* moment within the last FreshFor + MaxSkew, whatever the delays, repetitions
\* and order of the reports and however wrong (up to MaxSkew) its clock was.
HealthIsRecent ==
    health.ok =>
        LET since == badSince[health.of.ident]
        IN  since = Never \/ since > health.at \/ health.at - since <= FreshFor + MaxSkew
=============================================================================
