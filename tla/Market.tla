--------------------------------- MODULE Market ---------------------------------
(***************************************************************************)
(* Where the engine's prices come from and who notices when they stop:     *)
(* market_data.py's shared cache and self-healing download, the calls the  *)
(* scheduler's cycle and the dashboard make of it, the feed health the     *)
(* scheduler and /api/status report, and watchdog.sh.                      *)
(*                                                                         *)
(* Time is in minutes, one scheduler cycle each.  A snapshot of the        *)
(* history is known by the minutes since its download: its last bar began  *)
(* in the minute that the two clocks give, and was still forming then.     *)
(***************************************************************************)
EXTENDS Integers, Sequences

CONSTANTS SYMBOLS,       \* the sequence of symbols that are scanned
          BAR,           \* minutes in a bar
          TTL,           \* a snapshot younger than this is not fetched again
          STALE,         \* a snapshot younger than this is served in an outage
          RESET_AFTER,   \* failures before the session is rebuilt
          CHECK_EVERY    \* minutes between two watchdog checks

ASSUME MarketAssumption ==
    /\ SYMBOLS \in Seq(STRING)
    /\ {BAR, TTL, STALE, RESET_AFTER, CHECK_EVERY} \subseteq Nat \ {0}

VARIABLES
    minute,     \* of the bar that is forming
    check,      \* minutes until the watchdog looks
    due,        \* the cycle of this minute has not begun
    source,     \* the symbols Yahoo has data for; none of them in a full outage
    session,    \* its cookie in memory and on disk: none, good or rotten
    age,        \* per cache key, minutes since the download; STALE when useless
    failures,   \* consecutive failed downloads, see Count
    agenda,     \* the downloads the running cycle has still to make
    held,       \* symbols with an open position
    scanning,   \* the engine runs and its gates let it scan
    scan,       \* scan_status
    last,       \* the last bar of the snapshot the engine last judged
    fails,      \* the watchdog's count of bad checks, see Bad
    told        \* its last notification: none, down or recovered

vars == <<minute, check, due, source, session, age, failures, agenda, held,
          scanning, scan, last, fails, told>>

Symbols == {SYMBOLS[i] : i \in DOMAIN SYMBOLS}
Periods == {"5d", "10d"}         \* monitoring and the dashboard; scanning
Keys    == Symbols \X Periods

Init ==
    /\ minute = 0 /\ check = 0 /\ due = FALSE
    /\ source = Symbols /\ session = [memory |-> "none", disk |-> "none"]
    /\ age = [k \in Keys |-> STALE]
    /\ failures = 0
    /\ agenda = <<>> /\ held = {} /\ scanning = FALSE /\ scan = "idle"
    /\ last = "none"
    /\ fails = 0 /\ told = "none"

-----------------------------------------------------------------------------
(* get_historical *)

\* From RESET_AFTER on, only the remainder matters.
Count(n) == IF n = 2 * RESET_AFTER - 1 THEN RESET_AFTER ELSE n + 1
Healthy  == failures < RESET_AFTER

\* yfinance takes the cookie on disk when it has none, and makes one otherwise.
Loaded(s) == LET cookie == IF s.memory # "none" THEN s.memory
                           ELSE IF s.disk # "none" THEN s.disk ELSE "good"
             IN  [memory |-> cookie, disk |-> IF s.disk = "none" THEN cookie ELSE s.disk]

Answers(s, symbol) == symbol \in source /\ Loaded(s).memory = "good"

\* Mutant: the persisted cookie survives the rebuild.
RebuiltInMemory(s) == [s EXCEPT !.memory = "none"]

\* _reset_yfinance_session
Rebuilt(s) == [memory |-> "none", disk |-> "none"]

\* The bar that ends a snapshot was BAR - start minutes from its end when it was
\* downloaded; drop_forming_bar drops it if it began less than BAR minutes ago.
LastOf(a) ==
    LET started == (minute - a) % BAR
    IN  IF a + started >= BAR THEN "partial" ELSE "final"

\* Mutant: the rebuild of the session forgets the failures that led to it.
FetchedForgetting(key) ==
    IF age[key] < TTL
    THEN UNCHANGED <<age, failures, session>>
    ELSE LET first == Answers(session, key[1])
             reset == ~first /\ Count(failures) = RESET_AFTER
         IN  /\ session' = IF reset THEN Rebuilt(session) ELSE Loaded(session)
             /\ failures' = IF first \/ reset THEN 0 ELSE Count(failures)
             /\ age' = [age EXCEPT ![key] = IF first THEN 0 ELSE @]

\* Serve a young snapshot; else download, rebuilding the session and trying once
\* more at every RESET_AFTER-th failure; else serve a stale one, or nothing.
Fetched(key) ==
    IF age[key] < TTL
    THEN UNCHANGED <<age, failures, session>>
    ELSE LET retry == Count(failures) = RESET_AFTER
             again == Rebuilt(Loaded(session))
             first == Answers(session, key[1])
             second == ~first /\ retry /\ Answers(again, key[1])
         IN  /\ session' = IF ~first /\ retry /\ source # {} THEN Loaded(again)
                           ELSE IF ~first /\ retry THEN again
                           ELSE IF source # {} THEN Loaded(session) ELSE session
             /\ failures' = IF first \/ second THEN 0 ELSE Count(failures)
             /\ age' = [age EXCEPT ![key] = IF first \/ second THEN 0 ELSE @]

-----------------------------------------------------------------------------
(* The callers. *)

Older(a) == IF a < STALE THEN a + 1 ELSE STALE

Tick ==
    /\ agenda = <<>> /\ ~due /\ check > 0
    /\ minute' = (minute + 1) % BAR
    /\ check' = check - 1
    /\ due' = TRUE
    /\ age' = [k \in Keys |-> Older(age[k])]
    /\ UNCHANGED <<source, session, failures, agenda, held, scanning, scan, last, fails, told>>

\* One pass of _loop: monitor the positions, then scan every symbol.
Cycle ==
    /\ due
    /\ due' = FALSE
    /\ LET monitored == SelectSeq(SYMBOLS, LAMBDA s : s \in held)
       IN  agenda' = [i \in DOMAIN monitored |-> <<monitored[i], "5d">>]
                     \o IF scanning THEN [i \in DOMAIN SYMBOLS |-> <<SYMBOLS[i], "10d">>]
                        ELSE <<>>
    /\ scan' = IF scanning THEN "scanning" ELSE "idle"
    /\ UNCHANGED <<minute, check, source, session, age, failures, held, scanning,
                   last, fails, told>>

\* get_position, or _scan_symbol; the feed's health is looked at after the last.
Step ==
    /\ agenda # <<>>
    /\ Fetched(Head(agenda))
    /\ LET served == age'[Head(agenda)]
       IN  last' = IF served < STALE THEN LastOf(served) ELSE "none"
    /\ agenda' = Tail(agenda)
    /\ scan' = IF agenda' = <<>> /\ scan = "scanning" /\ failures' >= RESET_AFTER
               THEN "outage" ELSE scan
    /\ UNCHANGED <<minute, check, due, source, held, scanning, fails, told>>

\* The dashboard's price of a symbol; it may be that of a forming bar.
Dashboard(s) ==
    /\ agenda = <<>>
    /\ Fetched(<<s, "5d">>)
    /\ UNCHANGED <<minute, check, due, source, agenda, held, scanning, scan, last,
                   fails, told>>

\* Positions open and close, the gates open and shut.
Trade ==
    /\ agenda = <<>> /\ due
    /\ \/ held' \in SUBSET Symbols /\ UNCHANGED scanning
       \/ scanning' = ~scanning /\ UNCHANGED held
    /\ UNCHANGED <<minute, check, due, source, session, age, failures, agenda, scan,
                   last, fails, told>>

\* Yahoo loses or regains the data of some symbols or of all, or forgets the
\* cookie it gave out.
Yahoo ==
    /\ due
    /\ \/ source' \in SUBSET Symbols \ {source} /\ UNCHANGED session
       \/ /\ session.disk = "good"
          /\ session' = [memory |-> "rotten", disk |-> "rotten"]
          /\ UNCHANGED source
    /\ UNCHANGED <<minute, check, due, age, failures, agenda, held, scanning, scan,
                   last, fails, told>>

-----------------------------------------------------------------------------
(* watchdog.sh; from 7 on only the position in the next six matters. *)

Bad(n) == IF n = 12 THEN 7 ELSE n + 1

Watch ==
    /\ check = 0 /\ ~due /\ agenda = <<>>
    /\ check' = CHECK_EVERY
    /\ IF Healthy
       THEN /\ fails' = 0
            /\ told' = IF fails >= 2 THEN "recovered" ELSE told
       ELSE /\ fails' = Bad(fails)
            /\ told' = IF Bad(fails) = 2 \/ Bad(fails) % 6 = 0 THEN "down" ELSE told
    /\ UNCHANGED <<minute, due, source, session, age, failures, agenda, held,
                   scanning, scan, last>>

Next == \/ Tick \/ Cycle \/ Step \/ Watch \/ Trade \/ Yahoo
        \/ \E s \in Symbols : Dashboard(s)

Spec == Init /\ [][Next]_vars

\* The minutes pass, the loop and the timer run; nothing is assumed of Yahoo, of
\* the trades or of anybody's dashboard.
FairSpec == Spec /\ WF_vars(Tick) /\ WF_vars(Cycle) /\ WF_vars(Step) /\ WF_vars(Watch)

-----------------------------------------------------------------------------
TypeOK ==
    /\ minute \in 0..BAR - 1 /\ check \in 0..CHECK_EVERY /\ due \in BOOLEAN
    /\ source \subseteq Symbols
    /\ session \in [memory : {"none", "good", "rotten"}, disk : {"none", "good", "rotten"}]
    /\ age \in [Keys -> 0..STALE] /\ failures \in 0..2 * RESET_AFTER - 1
    /\ agenda \in Seq(Keys) /\ held \subseteq Symbols /\ scanning \in BOOLEAN
    /\ scan \in {"idle", "scanning", "outage"} /\ last \in {"none", "final", "partial"}
    /\ fails \in 0..12 /\ told \in {"none", "down", "recovered"}

(* A session whose cookie Yahoo has invalidated heals without a restart:   *)
(* while the engine scans and Yahoo has data for every symbol, a download  *)
(* succeeds again ("A fresh session recovers instantly").                  *)
SessionHeals == failures > 0 ~> (failures = 0 \/ source # Symbols \/ ~scanning)

(* An outage of every symbol that lasts is told, by the watchdog and after *)
(* each scan in the scan status, for all the stale snapshots served in it; *)
(* after it neither tells it for ever ("a data outage can never again be   *)
(* silent").  Nothing tells an outage of some symbols alone: each download *)
(* of another clears the count.                                            *)
OutagesTold ==
    /\ <>[](source = {} /\ scanning) =>
           <>[](told = "down" /\ ~Healthy /\ (agenda = <<>> => scan = "outage"))
    /\ <>[](source = Symbols /\ scanning) => <>[](told # "down" /\ scan # "outage")

(* The broker and the scan are only ever given completed bars              *)
(* (drop_forming_bar).                                                     *)
OnlyCompletedBars == last # "partial"
===============================================================================
