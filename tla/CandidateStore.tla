--------------------------- MODULE CandidateStore ---------------------------
(***************************************************************************)
(* The candidates the scanner keeps in process memory, and the two runs    *)
(* that change them (StrategySeparatedScannerService and the classes it    *)
(* extends):                                                               *)
(*   - a full scan evaluates the universe across many awaits and applies   *)
(*     everything it found in one step at its end;                         *)
(*   - an active refresh re-evaluates one candidate per step, so readers   *)
(*     see it half done, and a cancelled one stays half done.              *)
(*                                                                         *)
(* Abstraction.  Time is counted in five-minute candles.  The candle data  *)
(* of a moment is named by that moment, so the version of a candidate      *)
(* (source_snapshot_version) is the time of the candles its provenance     *)
(* names.  What the indicator arithmetic, the setup formulas and the score *)
(* decide is chosen freely: whether a symbol's data is usable, whether a   *)
(* setup matches, and which of the three bands its score, confidence and   *)
(* entry trigger fall into.                                                *)
(***************************************************************************)
EXTENDS Naturals, FiniteSets, FiniteSetsExt

CONSTANTS
    Symbol,         \* symbols of the universe
    Setup,          \* a direction and a setup formula
    None,           \* Python's None
    CandleRatio,    \* five-minute candles per reference candle
    SetupLife,      \* lifetime of a setup after its reference candle
    QualLife,       \* QUALIFICATION_EXPIRY
    Cooldown,       \* REENTRY_COOLDOWN
    MaxSelected,    \* MAX_SELECTED_CANDIDATES
    TerminalLimit,  \* SCANNER_TERMINAL_CANDIDATE_LIMIT
    MaxNow,         \* bound on the clock
    MaxRuns         \* bound on the runs that start

ASSUME StoreAssumption ==
    /\ IsFiniteSet(Symbol) /\ IsFiniteSet(Setup)
    /\ {CandleRatio, SetupLife, QualLife, Cooldown, MaxSelected,
        TerminalLimit} \subseteq Nat \ {0}
    /\ MaxNow \in Nat /\ MaxRuns \in Nat
    /\ None \notin Nat

VARIABLES
    now,        \* exchange time
    cand,       \* _candidates: candidate id -> candidate
    tombstones, \* _terminal_keys
    history,    \* _terminal_history: <<symbol, setup>> -> time or None
    provenance, \* _refresh_provenance: symbol -> version or None
    run,        \* the run that holds the scanner lock
    latest,     \* status and completion time of the last recorded run
    ended,      \* auxiliary: ids that reached a terminal lifecycle
    started     \* number of runs started, for the bound

storeVars ==
    <<now, cand, tombstones, history, provenance, run, latest, ended,
      started>>

Time == 0..MaxNow
Later == 0..(MaxNow + SetupLife + QualLife)

(* A candidate id: symbol, setup and reference close time.                 *)
Id == [symbol : Symbol, setup : Setup, ref : Time]

(* The bands of a score: rejected (SCORE_BELOW_80 or CONFIDENCE_BELOW_60), *)
(* worth watching, or ready to enter.                                      *)
Band == {"REJECT", "WATCH", "READY"}

Live == {"DETECTED", "WATCH_NEAR", "QUALIFIED"}
Terminal == {"INVALIDATED", "EXPIRED"}

(* A candidate: its lifecycle, the band of its numbers, the band its audit *)
(* codes speak of, the version its evidence names, when it was evaluated,  *)
(* and when its qualification expires.                                     *)
Candidate ==
    [life : Live \cup Terminal, band : Band, codes : Band, version : Time,
     at : Time, qual : Later \cup {None}]

Idle == [kind |-> "none", at |-> 0, todo |-> {}, good |-> FALSE,
         bad |-> FALSE, manual |-> FALSE]

ExpiresAt(c) == c.ref + SetupLife

(* The reference candles on which a setup can be found at time t.          *)
References(t) == {r \in Time : r % CandleRatio = 0 /\ r <= t /\ t < r + SetupLife}

StoreTypeOK ==
    /\ now \in Time
    /\ started \in 0..MaxRuns
    /\ DOMAIN cand \subseteq Id
    /\ \A c \in DOMAIN cand : cand[c] \in Candidate
    /\ tombstones \subseteq Id /\ ended \subseteq Id
    /\ history \in [Symbol \X Setup -> Time \cup {None}]
    /\ provenance \in [Symbol -> Time \cup {None}]
    /\ run \in [kind : {"none", "full", "refresh"}, at : Time,
                todo : SUBSET Id, good : BOOLEAN, bad : BOOLEAN,
                manual : BOOLEAN]
    /\ latest \in [status : {"NONE", "COMPLETED", "DEGRADED", "FAILED",
                             "SKIPPED"}, at : Time]

Forgotten ==
    /\ cand' = <<>>
    /\ tombstones' = {}
    /\ history' = [s \in Symbol \X Setup |-> None]
    /\ provenance' = [s \in Symbol |-> None]
    /\ latest' = [status |-> "NONE", at |-> 0]
    /\ ended' = {}

StoreInit ==
    /\ now = 0
    /\ cand = <<>>
    /\ tombstones = {}
    /\ history = [s \in Symbol \X Setup |-> None]
    /\ provenance = [s \in Symbol |-> None]
    /\ run = Idle
    /\ latest = [status |-> "NONE", at |-> 0]
    /\ ended = {}
    /\ started = 0

Tick ==
    /\ now < MaxNow
    /\ now' = now + 1
    /\ UNCHANGED <<cand, tombstones, history, provenance, run,
                   latest, ended, started>>

-----------------------------------------------------------------------------
(* Starting and skipping runs.                                             *)

Begin(kind, todo, manual) ==
    /\ run.kind = "none"
    /\ started < MaxRuns
    /\ started' = started + 1
    /\ run' = [Idle EXCEPT !.kind = kind, !.at = now, !.todo = todo,
                           !.manual = manual]

(* A full scan starts: the scheduler's, or one of POST /scanner/run-now.   *)
BeginFull(manual) ==
    /\ Begin("full", {}, manual)
    /\ UNCHANGED <<now, cand, tombstones, history, provenance,
                   latest, ended>>

Finish(status) ==
    /\ run' = Idle
    /\ latest' = [status |-> status, at |-> now]

(* What StrategySeparatedScannerService.active_refresh does to every       *)
(* candidate when the refresh it wraps returns, whatever it returned: the  *)
(* provenance last loaded for the symbol is written over the candidate's,  *)
(* and a legacy lifecycle becomes DETECTED.                                *)
Normalized(cs, prov) ==
    [c \in DOMAIN cs |->
        [cs[c] EXCEPT
            !.version = IF prov[c.symbol] = None THEN @ ELSE prov[c.symbol],
            !.life = IF @ \in {"QUALIFIED", "WATCH_NEAR"} THEN "DETECTED" ELSE @,
            !.qual = IF cs[c].life \in {"QUALIFIED", "WATCH_NEAR"} THEN None ELSE @]]

(* A refresh of the live candidates starts.                                *)
BeginRefresh ==
    /\ Begin("refresh", {c \in DOMAIN cand : cand[c].life \in Live}, FALSE)
    /\ UNCHANGED <<now, cand, tombstones, history, provenance,
                   latest, ended>>

(* With no live candidate it ends at once.                                 *)
EndEmptyRefresh ==
    /\ run.kind = "refresh"
    /\ run.todo = {}
    /\ Finish("COMPLETED")
    /\ cand' = Normalized(cand, provenance)
    /\ UNCHANGED <<now, tombstones, history, provenance, ended, started>>

(* The exchange time is unavailable or skewed: the run fails before it     *)
(* evaluates anything.  The wrapper of a refresh still runs.               *)
FailRun ==
    /\ run.kind # "none"
    /\ ~run.good /\ ~run.bad
    /\ Finish("FAILED")
    /\ cand' = IF run.kind = "refresh" THEN Normalized(cand, provenance) ELSE cand
    /\ UNCHANGED <<now, tombstones, history, provenance, ended, started>>

(* A run is attempted while another holds the lock: it is recorded as      *)
(* SKIPPED, and a skipped refresh still runs its wrapper.  Only a manual   *)
(* scan can hold the lock against the scheduler's refresh.                 *)
SkipRun(kind) ==
    /\ run.kind # "none"
    /\ kind = "refresh" => run.manual
    /\ latest' = [status |-> "SKIPPED", at |-> now]
    /\ cand' = IF kind = "refresh" THEN Normalized(cand, provenance) ELSE cand
    /\ UNCHANGED <<now, tombstones, history, provenance, run, ended, started>>

(* stop() cancels the scheduler's run at its await.  Nothing is recorded,  *)
(* and a refresh leaves the candidates as far as it got.                   *)
CancelRun ==
    /\ run.kind # "none"
    /\ ~run.manual
    /\ run' = Idle
    /\ UNCHANGED <<now, cand, tombstones, history, provenance,
                   latest, ended, started>>

-----------------------------------------------------------------------------
(* A full scan.                                                            *)

(* Evaluating one symbol, its candles or indicators are missing, stale or  *)
(* not aligned, ...                                                        *)
DataFails == [result |-> "failed"]

(* ... its trend or volatility rules it out or no setup matches, ...       *)
NoSetup == [result |-> "nothing"]

(* ... or the highest ranked of the setups that match is a candidate.      *)
Matches(t) == [result : {"match"}, setup : Setup, ref : References(t), band : Band]

Evaluation(t) == {DataFails, NoSetup} \cup Matches(t)

Found(ev) ==
    {[symbol |-> s, setup |-> ev[s].setup, ref |-> ev[s].ref] :
        s \in {x \in Symbol : ev[x].result = "match"}}

(* Neither a terminal candidate nor, before the cooldown is over, another  *)
(* of its symbol and setup comes back.                                     *)
Admissible(c, t) ==
    /\ c \notin tombstones
    /\ \/ history[<<c.symbol, c.setup>>] = None
       \/ t >= history[<<c.symbol, c.setup>>] + Cooldown

(* The candidate a match becomes.  One that a cancelled refresh left       *)
(* QUALIFIED keeps its qualification and its numbers.                      *)
Detected(c, band, t) ==
    LET new == [life |-> "DETECTED", band |-> band, codes |-> band,
                version |-> t, at |-> t, qual |-> None]
    IN  IF c \in DOMAIN cand /\ cand[c].life = "QUALIFIED"
        THEN [new EXCEPT !.life = "QUALIFIED", !.band = cand[c].band,
                         !.qual = cand[c].qual]
        ELSE new

RunStatus(good, bad) ==
    CASE ~good -> "FAILED"
      [] good /\ bad -> "DEGRADED"
      [] OTHER -> "COMPLETED"

(* The end of a full scan, with the evaluation of every symbol: the        *)
(* admissible candidates are stored in order of rank until MaxSelected are *)
(* selected.  The order of the ranks is not modelled.                      *)
EndFull(ev) ==
    LET t == run.at
        found == {c \in Found(ev) : Admissible(c, t)}
        good == \E s \in Symbol : ev[s] # DataFails
        bad == \E s \in Symbol : ev[s] = DataFails
    IN  /\ run.kind = "full"
        /\ \E chosen \in SUBSET found :
              /\ Cardinality(chosen) =
                    IF Cardinality(found) < MaxSelected
                    THEN Cardinality(found) ELSE MaxSelected
              /\ cand' = [c \in DOMAIN cand \cup chosen |->
                            IF c \in chosen
                            THEN Detected(c, ev[c.symbol].band, t)
                            ELSE cand[c]]
        /\ Finish(RunStatus(good, bad))
        /\ UNCHANGED <<now, tombstones, history, provenance, ended, started>>

-----------------------------------------------------------------------------
(* A refresh of one candidate.                                             *)

(* Refreshing a candidate, its candles cannot be loaded or their           *)
(* volatility refuses them, ...                                            *)
Failing == {"unloaded", "gated"}

(* ... the trend or the price invalidates the setup, or it is scored.      *)
Invalidating == {"trend", "invalidated"}

Outcome == Failing \cup Invalidating \cup Band

Expired(c, t) ==
    t >= IF cand[c].life = "QUALIFIED" THEN cand[c].qual ELSE ExpiresAt(c)

(* The terminal lifecycle the outcome gives the candidate, if any.         *)
TerminalState(c, o, t) ==
    CASE o \in Invalidating -> "INVALIDATED"
      [] o \notin Invalidating /\ Expired(c, t) -> "EXPIRED"
      [] OTHER -> "none"

(* A candidate that stays live: a failure preserves it, a QUALIFIED one is *)
(* only stamped, and another takes the band its new score falls into.      *)
(* Below the thresholds it is not terminal but DETECTED, its audit codes   *)
(* saying why.                                                             *)
Rescored(c, o, t) ==
    CASE o \in Failing -> cand[c]
      [] o \in Band /\ cand[c].life = "QUALIFIED" -> [cand[c] EXCEPT !.at = t]
      [] OTHER -> [cand[c] EXCEPT
            !.band = o, !.codes = o, !.at = t,
            !.life = CASE o = "READY" -> "QUALIFIED"
                       [] o = "WATCH" -> "WATCH_NEAR"
                       [] OTHER -> "DETECTED",
            !.qual = IF o = "READY" THEN t + QualLife ELSE None]

(* _terminal(): the candidate ends at t.  Nothing reads its numbers any    *)
(* more.                                                                   *)
Terminated(x, end, t) ==
    [x EXCEPT !.life = end, !.at = t, !.qual = None,
              !.band = "REJECT", !.codes = "REJECT"]

(* The terminal candidates beyond the limit, the oldest first, lose their  *)
(* payload.                                                                *)
Overflow(cs) ==
    LET old == {c \in DOMAIN cs : cs[c].life \in Terminal}
    IN  {D \in SUBSET old :
            /\ Cardinality(D) = IF Cardinality(old) > TerminalLimit
                                THEN Cardinality(old) - TerminalLimit ELSE 0
            /\ \A c \in D : \A d \in old \ D : cs[c].at <= cs[d].at}

(* Mutated form of Tombstones: pruning forgets the key with the payload.   *)
TombstonesPruned(c, gone) == (tombstones \cup {c}) \ gone

(* The terminal keys once c is terminal and gone has been pruned: the      *)
(* tombstone outlives the payload.                                         *)
Tombstones(c, gone) == tombstones \cup {c}

(* One candidate is refreshed; after the last one the run is recorded and  *)
(* the wrapper runs, in the same step.                                     *)
RefreshOne(c, o) ==
    LET t == run.at
        end == TerminalState(c, o, t)
        bad == end = "none" /\ o \in Failing
        prov == IF o = "unloaded" THEN provenance
                ELSE [provenance EXCEPT ![c.symbol] = t]
        marked == [cand EXCEPT ![c] =
                     IF end = "none" THEN Rescored(c, o, t)
                     ELSE Terminated(@, end, t)]
        last == run.todo = {c}
        good2 == run.good \/ ~bad
        bad2 == run.bad \/ bad
    IN  /\ run.kind = "refresh"
        /\ c \in run.todo
        /\ \E gone \in IF end = "none" THEN {{}} ELSE Overflow(marked) :
              LET kept == [d \in DOMAIN cand \ gone |-> marked[d]]
              IN  /\ cand' = IF last THEN Normalized(kept, prov) ELSE kept
                  /\ tombstones' = IF end = "none" THEN tombstones
                                   ELSE Tombstones(c, gone)
        /\ history' = IF end = "none" THEN history
                      ELSE [history EXCEPT ![<<c.symbol, c.setup>>] = t]
        /\ ended' = IF end = "none" THEN ended ELSE ended \cup {c}
        /\ provenance' = prov
        /\ IF last
           THEN Finish(RunStatus(good2, bad2))
           ELSE /\ run' = [run EXCEPT !.todo = @ \ {c}, !.good = good2,
                                      !.bad = bad2]
                /\ UNCHANGED latest
        /\ UNCHANGED <<now, started>>

-----------------------------------------------------------------------------

RunStep ==
    \/ \E manual \in BOOLEAN : BeginFull(manual)
    \/ BeginRefresh
    \/ EndEmptyRefresh
    \/ FailRun
    \/ \E kind \in {"full", "refresh"} : SkipRun(kind)
    \/ CancelRun
    \/ \E ev \in [Symbol -> Evaluation(run.at)] : EndFull(ev)
    \/ \E c \in run.todo, o \in Outcome : RefreshOne(c, o)

StoreNext == Tick \/ RunStep

StoreSpec == StoreInit /\ [][StoreNext]_storeVars

(* A candidate that ended never comes back in the same process, also after *)
(* its payload has been pruned and the cooldown of its symbol is over      *)
(* (_terminal_keys in full_scan and _prune_terminal_state).                *)
EndedStaysEnded ==
    \A c \in ended \cap DOMAIN cand : cand[c].life \in Terminal
=============================================================================
