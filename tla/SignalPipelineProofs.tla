------------------------ MODULE SignalPipelineProofs ------------------------
(***************************************************************************)
(* Theorems about CandidateStore and SignalPipeline, for any symbols,      *)
(* setups, limits and lifetimes.                                           *)
(*                                                                         *)
(* The argument.  A candidate that ended has a tombstone and is not among  *)
(* those a refresh has still to do, so neither run brings it back.  The    *)
(* expiry of an ACTIVE signal never lies beyond its setup or its entry     *)
(* candle.  A signal whose decision no candidate has any more was last     *)
(* changed before the last recorded run, unless the candidate was pruned.  *)
(* The worker's assessment leaves room for the position it enters, and     *)
(* the room can only grow until the order is sent.                         *)
(***************************************************************************)
EXTENDS SignalPipeline, FiniteSetTheorems, TLAPS

(* What is terminal has ended, what ended has a tombstone, and what a      *)
(* refresh has still to do is live.                                        *)
TerminalIsEnded == \A c \in DOMAIN cand : cand[c].life \in Terminal => c \in ended

EndedHasTombstone == ended \subseteq tombstones

TodoIsLive == \A c \in run.todo : c \in DOMAIN cand /\ cand[c].life \in Live

(* Nothing is stamped with a time that has not come.                       *)
StampsArePast ==
    /\ run.at <= now /\ latest.at <= now
    /\ \A c \in DOMAIN cand : cand[c].at <= now

StoreIInv ==
    /\ StoreTypeOK
    /\ TerminalIsEnded
    /\ EndedHasTombstone
    /\ TodoIsLive
    /\ StampsArePast
    /\ EndedStaysEnded

(* The decision that the signal of key k is about is that of a candidate.  *)
Seen(k, cs) == k.cand \in DOMAIN cs /\ cs[k.cand].version = k.version

SignalsArePast == \A k \in DOMAIN signals : signals[k].updated <= now

ActiveExpires ==
    \A k \in DOMAIN signals : signals[k].life = "ACTIVE" =>
        /\ signals[k].expires <= ExpiresAt(k.cand)
        /\ signals[k].expires <= k.version + QualLife

(* A live signal without a candidate is older than the last COMPLETED run, *)
(* or its candidate was pruned.                                            *)
UnseenAreOld ==
    latest.status = "COMPLETED" =>
        \A k \in DOMAIN signals : signals[k].life \notin TerminalSignal =>
            \/ Seen(k, cand)
            \/ signals[k].updated <= latest.at
            \/ k.cand \in ended \ DOMAIN cand

(* There is a slot and margin for a position of symbol s.                  *)
Room(s) ==
    /\ s \in Symbol
    /\ positions[s] = None
    /\ Cardinality(Open(positions)) < MaxOpenTrades
    /\ MarginSum(Open(positions)) + MarginOf[s] <= MaxMargin

(* What the worker has assessed still fits when the order is sent.         *)
HandLeavesRoom == InHand("ASSESSED") => Room(work.key.cand.symbol)

(* What it has in hand was proved before the setup and the candle ended.   *)
ProvedInTime == work # None => WithinSetup(work.key, work.proved)

IInv ==
    /\ StoreIInv
    /\ TypeOK
    /\ SignalsArePast
    /\ ActiveExpires
    /\ UnseenAreOld
    /\ ExposureBounded
    /\ HandLeavesRoom
    /\ ProvedInTime

-----------------------------------------------------------------------------
(* Times, and what the operators on candidates return.                     *)

LEMMA Bounds ==
    /\ SetupLife \in Nat /\ QualLife \in Nat /\ MaxNow \in Nat /\ MaxRuns \in Nat
    /\ Time \subseteq Nat /\ Later \subseteq Nat /\ 0 \in Time /\ None \notin Later
    /\ \A t \in Time : t + QualLife \in Later
    /\ \A c \in Id : ExpiresAt(c) \in Later
    /\ \A t \in Time : t <= MaxNow
<1>1. SetupLife \in Nat /\ QualLife \in Nat /\ MaxNow \in Nat /\ MaxRuns \in Nat
  BY StoreAssumption
<1>2. None \notin Nat
  BY StoreAssumption
<1>3. \A c \in Id : c.ref \in Time
  BY DEF Id
<1> QED
  BY <1>1, <1>2, <1>3 DEF Time, Later, ExpiresAt

LEMMA RescoredShape ==
    ASSUME StoreTypeOK, NEW c \in DOMAIN cand, cand[c].life \in Live, NEW t \in Time,
           NEW o \in Outcome \ Invalidating
    PROVE  /\ Rescored(c, o, t) \in Candidate
           /\ Rescored(c, o, t).life \in Live
           /\ Rescored(c, o, t).version = cand[c].version
           /\ Rescored(c, o, t).at \in {cand[c].at, t}
<1>1. cand[c] \in Candidate
  BY DEF StoreTypeOK
<1>2. o \in Failing \/ o \in Band
  BY DEF Outcome
<1>3. CASE o \in Failing
  <2>1. Rescored(c, o, t) = cand[c]
    BY <1>3 DEF Rescored, Failing, Band
  <2> QED
    BY <1>1, <2>1
<1>4. CASE o \in Band /\ cand[c].life = "QUALIFIED"
  <2>1. Rescored(c, o, t) = [cand[c] EXCEPT !.at = t]
    BY <1>4 DEF Rescored, Failing, Band
  <2> QED
    BY <1>1, <2>1 DEF Candidate
<1>5. CASE o \in Band /\ cand[c].life # "QUALIFIED"
  <2> DEFINE life == CASE o = "READY" -> "QUALIFIED"
                       [] o = "WATCH" -> "WATCH_NEAR"
                       [] OTHER -> "DETECTED"
             qual == IF o = "READY" THEN t + QualLife ELSE None
  <2>1. Rescored(c, o, t) = [cand[c] EXCEPT !.band = o, !.codes = o, !.at = t,
                                            !.life = life, !.qual = qual]
    BY <1>5 DEF Rescored, Failing, Band
  <2>2. life \in Live
    BY <1>5 DEF Live, Band
  <2>3. qual \in Later \cup {None}
    BY Bounds
  <2> HIDE DEF life, qual
  <2>4. Rescored(c, o, t) \in Candidate
    BY <1>1, <1>5, <2>1, <2>2, <2>3 DEF Candidate
  <2> QED
    BY <1>1, <2>1, <2>2, <2>4 DEF Candidate
<1> QED
  BY <1>2, <1>3, <1>4, <1>5

LEMMA TerminatedShape ==
    ASSUME NEW x \in Candidate, NEW end \in Terminal, NEW t \in Time
    PROVE  /\ Terminated(x, end, t) \in Candidate
           /\ Terminated(x, end, t).life \in Terminal
           /\ Terminated(x, end, t).version = x.version
           /\ Terminated(x, end, t).at = t
BY DEF Terminated, Candidate, Band

(* The wrapper of a refresh ends nothing and brings nothing back.          *)
LEMMA NormalizedShape ==
    ASSUME NEW cs, DOMAIN cs \subseteq Id, \A c \in DOMAIN cs : cs[c] \in Candidate,
           NEW prov \in [Symbol -> Time \cup {None}]
    PROVE  /\ DOMAIN Normalized(cs, prov) = DOMAIN cs
           /\ \A c \in DOMAIN cs :
                /\ Normalized(cs, prov)[c] \in Candidate
                /\ Normalized(cs, prov)[c].at = cs[c].at
                /\ Normalized(cs, prov)[c].life \in Terminal <=> cs[c].life \in Terminal
                /\ Normalized(cs, prov)[c].life \in Live <=> cs[c].life \in Live
<1>1. DOMAIN Normalized(cs, prov) = DOMAIN cs
  BY DEF Normalized
<1> SUFFICES ASSUME NEW c \in DOMAIN cs
             PROVE  /\ Normalized(cs, prov)[c] \in Candidate
                    /\ Normalized(cs, prov)[c].at = cs[c].at
                    /\ Normalized(cs, prov)[c].life \in Terminal <=> cs[c].life \in Terminal
                    /\ Normalized(cs, prov)[c].life \in Live <=> cs[c].life \in Live
  BY <1>1
<1> DEFINE x == cs[c]
           version == IF prov[c.symbol] = None THEN x.version ELSE prov[c.symbol]
           life == IF x.life \in {"QUALIFIED", "WATCH_NEAR"} THEN "DETECTED" ELSE x.life
           qual == IF x.life \in {"QUALIFIED", "WATCH_NEAR"} THEN None ELSE x.qual
<1>2. Normalized(cs, prov)[c] = [x EXCEPT !.version = version, !.life = life, !.qual = qual]
  BY DEF Normalized
<1>3. x \in Candidate /\ c.symbol \in Symbol
  BY DEF Id
<1>4. /\ version \in Time /\ life \in Live \cup Terminal /\ qual \in Later \cup {None}
      /\ life \in Terminal <=> x.life \in Terminal
      /\ life \in Live <=> x.life \in Live
  BY <1>3 DEF Candidate, Live, Terminal
<1> HIDE DEF version, life, qual, x
<1>5. /\ [x EXCEPT !.version = version, !.life = life, !.qual = qual] \in Candidate
      /\ [x EXCEPT !.version = version, !.life = life, !.qual = qual].at = x.at
      /\ [x EXCEPT !.version = version, !.life = life, !.qual = qual].life = life
  BY <1>3, <1>4 DEF Candidate
<1> QED
  BY <1>2, <1>4, <1>5 DEF x

LEMMA DetectedShape ==
    ASSUME StoreTypeOK, NEW c \in Id, NEW band \in Band, NEW t \in Time
    PROVE  /\ Detected(c, band, t) \in Candidate
           /\ Detected(c, band, t).life \in Live
           /\ Detected(c, band, t).at = t
<1> DEFINE new == [life |-> "DETECTED", band |-> band, codes |-> band,
                   version |-> t, at |-> t, qual |-> None]
<1>1. new \in Candidate /\ new.life \in Live /\ new.at = t
  BY DEF Candidate, Live
<1>2. CASE c \in DOMAIN cand /\ cand[c].life = "QUALIFIED"
  <2>1. Detected(c, band, t) = [new EXCEPT !.life = "QUALIFIED", !.band = cand[c].band,
                                           !.qual = cand[c].qual]
    BY <1>2 DEF Detected
  <2>2. cand[c].band \in Band /\ cand[c].qual \in Later \cup {None}
    BY <1>2 DEF StoreTypeOK, Candidate
  <2> QED
    BY <2>1, <2>2 DEF Candidate, Live
<1>3. CASE ~(c \in DOMAIN cand /\ cand[c].life = "QUALIFIED")
  <2>1. Detected(c, band, t) = new
    BY <1>3 DEF Detected
  <2> QED
    BY <1>1, <2>1
<1> QED
  BY <1>2, <1>3

LEMMA LivesApart == Live \cap Terminal = {}
BY DEF Live, Terminal

-----------------------------------------------------------------------------
(* What a step does to the store.                                          *)

(* The refresh of candidate c: either c ends and payloads of ended         *)
(* candidates may go, or c stays live.                                     *)
Ends(c, gone) ==
    /\ ended' = ended \cup {c} /\ tombstones' = tombstones \cup {c}
    /\ gone \subseteq ended'
    /\ c \notin gone => cand'[c].life \in Terminal

StaysLive(c, gone) ==
    /\ UNCHANGED <<ended, tombstones>>
    /\ gone = {}
    /\ cand'[c].life \in Live

RefreshesTo(c, gone) ==
    /\ DOMAIN cand' = DOMAIN cand \ gone
    /\ \A d \in DOMAIN cand' :
         /\ cand'[d] \in Candidate
         /\ cand'[d].at \in {cand[d].at, run.at}
         /\ d # c => /\ cand'[d].life \in Terminal <=> cand[d].life \in Terminal
                     /\ cand'[d].life \in Live <=> cand[d].life \in Live
    /\ Ends(c, gone) \/ StaysLive(c, gone)
    /\ UNCHANGED <<now, started>>
    /\ history' \in [Symbol \X Setup -> Time \cup {None}]
    /\ provenance' \in [Symbol -> Time \cup {None}]
    /\ \/ /\ run' = Idle /\ latest'.at = now
          /\ latest' \in [status : {"COMPLETED", "DEGRADED", "FAILED"}, at : Time]
       \/ /\ UNCHANGED latest
          /\ \A d \in DOMAIN cand' : cand'[d].version = cand[d].version
          /\ run' \in [kind : {"refresh"}, at : {run.at}, todo : {run.todo \ {c}},
                       good : BOOLEAN, bad : BOOLEAN, manual : {run.manual}]

LEMMA StatusType ==
    ASSUME NEW good, NEW bad
    PROVE  RunStatus(good, bad) \in {"COMPLETED", "DEGRADED", "FAILED"}
BY DEF RunStatus

LEMMA RefreshShape ==
    ASSUME StoreIInv, NEW c \in run.todo, NEW o \in Outcome, RefreshOne(c, o)
    PROVE  \E gone \in SUBSET DOMAIN cand : RefreshesTo(c, gone)
<1> DEFINE t == run.at
           end == TerminalState(c, o, t)
           bad == end = "none" /\ o \in Failing
           prov == IF o = "unloaded" THEN provenance ELSE [provenance EXCEPT ![c.symbol] = t]
           new == IF end = "none" THEN Rescored(c, o, t) ELSE Terminated(cand[c], end, t)
           marked == [cand EXCEPT ![c] = new]
           last == run.todo = {c}
           good2 == run.good \/ ~bad
           bad2 == run.bad \/ bad
<1>1. StoreTypeOK
  BY DEF StoreIInv
<1>2. c \in DOMAIN cand /\ cand[c].life \in Live /\ cand[c] \in Candidate /\ c \in Id
  BY <1>1 DEF StoreIInv, TodoIsLive, StoreTypeOK
<1>3. t \in Time /\ now \in Time
  BY <1>1 DEF StoreTypeOK
<1>4. end \in Terminal \cup {"none"}
  BY DEF TerminalState, Terminal
<1>5. end = "none" => o \notin Invalidating
  BY DEF TerminalState
<1>6. /\ new \in Candidate /\ new.version = cand[c].version
      /\ new.at \in {cand[c].at, t}
      /\ end = "none" => new.life \in Live
      /\ end # "none" => new.life \in Terminal
  <2>1. CASE end = "none"
    BY <1>1, <1>2, <1>3, <1>5, <2>1, RescoredShape
  <2>2. CASE end # "none"
    BY <1>2, <1>3, <1>4, <2>2, TerminatedShape
  <2> QED
    BY <2>1, <2>2
<1>7. /\ DOMAIN marked = DOMAIN cand
      /\ marked[c] = new
      /\ \A d \in DOMAIN cand : d # c => marked[d] = cand[d]
  BY <1>2
<1>8. prov \in [Symbol -> Time \cup {None}]
  <2>1. c.symbol \in Symbol
    BY <1>2 DEF Id
  <2> QED
    BY <1>1, <1>3, <2>1 DEF StoreTypeOK
<1>9. PICK gone \in IF end = "none" THEN {{}} ELSE Overflow(marked) :
        LET kept == [d \in DOMAIN cand \ gone |-> marked[d]]
        IN  /\ cand' = IF last THEN Normalized(kept, prov) ELSE kept
            /\ tombstones' = IF end = "none" THEN tombstones
                             ELSE Tombstones(c, gone)
  BY Zenon DEF RefreshOne
<1> DEFINE kept == [d \in DOMAIN cand \ gone |-> marked[d]]
<1>10. /\ cand' = IF last THEN Normalized(kept, prov) ELSE kept
       /\ tombstones' = IF end = "none" THEN tombstones ELSE tombstones \cup {c}
  BY <1>9 DEF Tombstones
<1>11. /\ history' = IF end = "none" THEN history
                     ELSE [history EXCEPT ![<<c.symbol, c.setup>>] = t]
       /\ ended' = IF end = "none" THEN ended ELSE ended \cup {c}
       /\ provenance' = prov
       /\ IF last
          THEN Finish(RunStatus(good2, bad2))
          ELSE /\ run' = [run EXCEPT !.todo = @ \ {c}, !.good = good2, !.bad = bad2]
               /\ UNCHANGED latest
       /\ UNCHANGED <<now, started>>
       /\ run.kind = "refresh"
  BY Zenon DEF RefreshOne
<1>12. /\ gone \subseteq DOMAIN cand
       /\ end = "none" => gone = {}
       /\ end # "none" => \A d \in gone : marked[d].life \in Terminal
  BY <1>7, <1>9 DEF Overflow
<1>13. /\ DOMAIN kept = DOMAIN cand \ gone
       /\ \A d \in DOMAIN kept :
            /\ kept[d] = marked[d] /\ kept[d] \in Candidate /\ d \in Id
  BY <1>1, <1>6, <1>7 DEF StoreTypeOK
<1>14. good2 \in BOOLEAN /\ bad2 \in BOOLEAN
  OBVIOUS
<1>15. history' \in [Symbol \X Setup -> Time \cup {None}]
  <2>1. <<c.symbol, c.setup>> \in Symbol \X Setup
    BY <1>2 DEF Id
  <2>2. history \in [Symbol \X Setup -> Time \cup {None}]
    BY <1>1 DEF StoreTypeOK
  <2> QED
    BY <1>3, <1>11, <2>1, <2>2
<1>16. ASSUME last
       PROVE  /\ run' = Idle /\ latest'.at = now
              /\ latest' \in [status : {"COMPLETED", "DEGRADED", "FAILED"}, at : Time]
  <2>1. Finish(RunStatus(good2, bad2))
    BY <1>11, <1>16
  <2>2. RunStatus(good2, bad2) \in {"COMPLETED", "DEGRADED", "FAILED"}
    BY StatusType
  <2> HIDE DEF good2, bad2
  <2> QED
    BY <1>3, <2>1, <2>2 DEF Finish
<1>17. ASSUME ~last
       PROVE  run' \in [kind : {"refresh"}, at : {run.at}, todo : {run.todo \ {c}},
                        good : BOOLEAN, bad : BOOLEAN, manual : {run.manual}]
  <2>1. run' = [run EXCEPT !.todo = @ \ {c}, !.good = good2, !.bad = bad2]
    BY <1>11, <1>17
  <2> HIDE DEF good2, bad2
  <2> QED
    BY <1>1, <1>11, <1>14, <2>1 DEF StoreTypeOK
<1> HIDE DEF t, end, bad, prov, new, marked, last, good2, bad2, kept
<1>18. /\ DOMAIN cand' = DOMAIN cand \ gone
       /\ \A d \in DOMAIN cand' :
            /\ cand'[d] \in Candidate
            /\ cand'[d].at = marked[d].at
            /\ cand'[d].life \in Terminal <=> marked[d].life \in Terminal
            /\ cand'[d].life \in Live <=> marked[d].life \in Live
            /\ ~last => cand'[d].version = marked[d].version
  <2>1. CASE last
    <3>1. cand' = Normalized(kept, prov)
      BY <1>10, <2>1
    <3>2. DOMAIN kept \subseteq Id /\ \A d \in DOMAIN kept : kept[d] \in Candidate
      BY <1>13
    <3> QED
      BY <1>8, <1>13, <2>1, <3>1, <3>2, NormalizedShape
  <2>2. CASE ~last
    BY <1>10, <1>13, <2>2
  <2> QED
    BY <2>1, <2>2
<1>19. \A d \in DOMAIN cand' :
         /\ cand'[d].at \in {cand[d].at, run.at}
         /\ d # c => /\ cand'[d].life \in Terminal <=> cand[d].life \in Terminal
                     /\ cand'[d].life \in Live <=> cand[d].life \in Live
         /\ ~last => cand'[d].version = cand[d].version
  BY <1>6, <1>7, <1>18 DEF t
<1>20. CASE end = "none"
  <2>1. StaysLive(c, gone)
    BY <1>2, <1>6, <1>7, <1>10, <1>11, <1>12, <1>18, <1>20 DEF StaysLive
  <2> QED
    BY <1>8, <1>11, <1>12, <1>15, <1>16, <1>17, <1>18, <1>19, <2>1 DEF RefreshesTo
<1>21. CASE end # "none"
  <2>1. gone \subseteq ended'
    <3> SUFFICES ASSUME NEW d \in gone PROVE d \in ended'
      OBVIOUS
    <3>1. marked[d].life \in Terminal /\ d \in DOMAIN cand
      BY <1>12, <1>21
    <3> QED
      BY <1>7, <1>11, <1>21, <3>1 DEF StoreIInv, TerminalIsEnded
  <2>2. Ends(c, gone)
    BY <1>2, <1>6, <1>7, <1>10, <1>11, <1>18, <1>21, <2>1 DEF Ends
  <2> QED
    BY <1>8, <1>11, <1>12, <1>15, <1>16, <1>17, <1>18, <1>19, <2>2 DEF RefreshesTo
<1> QED
  BY <1>20, <1>21

(* The end of a full scan: candidates without a tombstone are stored live. *)
Stores(chosen) ==
    /\ DOMAIN cand' = DOMAIN cand \cup chosen
    /\ \A c \in chosen : /\ cand'[c] \in Candidate /\ cand'[c].life \in Live
                         /\ cand'[c].at = run.at
    /\ \A c \in DOMAIN cand \ chosen : cand'[c] = cand[c]
    /\ run' = Idle /\ latest'.at = now
    /\ latest' \in [status : {"COMPLETED", "DEGRADED", "FAILED"}, at : Time]
    /\ UNCHANGED <<now, tombstones, history, provenance, ended, started>>

LEMMA FoundShape ==
    ASSUME NEW ev \in [Symbol -> Evaluation(run.at)], NEW c \in Found(ev)
    PROVE  c \in Id /\ ev[c.symbol].band \in Band
<1>1. PICK s \in Symbol : /\ ev[s].result = "match"
                          /\ c = [symbol |-> s, setup |-> ev[s].setup, ref |-> ev[s].ref]
  BY DEF Found
<1>2. ev[s] \in Matches(run.at)
  <2>1. ev[s] \in {DataFails, NoSetup} \cup Matches(run.at)
    BY DEF Evaluation
  <2>2. DataFails.result = "failed" /\ NoSetup.result = "nothing"
    BY DEF DataFails, NoSetup
  <2> QED
    BY <1>1, <2>1, <2>2
<1>3. /\ ev[s].setup \in Setup /\ ev[s].ref \in Time /\ ev[s].band \in Band
  BY <1>2 DEF Matches, References
<1> QED
  BY <1>1, <1>3 DEF Id

LEMMA FullShape ==
    ASSUME StoreIInv, NEW ev \in [Symbol -> Evaluation(run.at)], EndFull(ev)
    PROVE  \E chosen \in SUBSET (Id \ tombstones) : Stores(chosen)
<1>1. StoreTypeOK /\ run.at \in Time /\ now \in Time
  BY DEF StoreIInv, StoreTypeOK
<1>2. PICK chosen \in SUBSET {c \in Found(ev) : Admissible(c, run.at)} :
        cand' = [c \in DOMAIN cand \cup chosen |->
                   IF c \in chosen THEN Detected(c, ev[c.symbol].band, run.at) ELSE cand[c]]
  BY DEF EndFull
<1>3. chosen \in SUBSET (Id \ tombstones)
  BY FoundShape DEF Admissible
<1>4. \A c \in chosen : /\ cand'[c] = Detected(c, ev[c.symbol].band, run.at)
                        /\ c \in Id /\ ev[c.symbol].band \in Band
  BY <1>2, FoundShape
<1>5. \A c \in chosen : /\ cand'[c] \in Candidate /\ cand'[c].life \in Live
                        /\ cand'[c].at = run.at
  BY <1>1, <1>4, DetectedShape
<1>6. /\ run' = Idle /\ latest'.at = now
      /\ latest' \in [status : {"COMPLETED", "DEGRADED", "FAILED"}, at : Time]
  <2>1. PICK good, bad : Finish(RunStatus(good, bad))
    BY DEF EndFull
  <2>2. RunStatus(good, bad) \in {"COMPLETED", "DEGRADED", "FAILED"}
    BY StatusType
  <2> QED
    BY <1>1, <2>1, <2>2 DEF Finish
<1>7. UNCHANGED <<now, tombstones, history, provenance, ended, started>>
  BY DEF EndFull
<1> QED
  BY <1>2, <1>3, <1>5, <1>6, <1>7 DEF Stores

(* The other steps of a run leave the candidates or normalise them.        *)
Keeps ==
    /\ DOMAIN cand' = DOMAIN cand
    /\ \A c \in DOMAIN cand :
         /\ cand'[c] \in Candidate
         /\ cand'[c].at = cand[c].at
         /\ cand'[c].life \in Terminal <=> cand[c].life \in Terminal
         /\ cand'[c].life \in Live <=> cand[c].life \in Live
    /\ UNCHANGED <<now, tombstones, history, provenance, ended>>
    /\ started' \in 0 .. MaxRuns
    /\ run' \in [kind : {"none", "full", "refresh"}, at : Time, todo : SUBSET Id,
                 good : BOOLEAN, bad : BOOLEAN, manual : BOOLEAN]
    /\ run'.at \in {run.at, now, 0}
    /\ \A c \in run'.todo : c \in run.todo \/ (c \in DOMAIN cand /\ cand[c].life \in Live)
    /\ \/ UNCHANGED <<latest, cand>>
       \/ /\ latest'.at = now
          /\ latest' \in [status : {"COMPLETED", "DEGRADED", "FAILED", "SKIPPED"}, at : Time]

LEMMA IdleType ==
    /\ Idle \in [kind : {"none", "full", "refresh"}, at : Time, todo : SUBSET Id,
                 good : BOOLEAN, bad : BOOLEAN, manual : BOOLEAN]
    /\ Idle.todo = {} /\ Idle.at = 0
BY Bounds DEF Idle

LEMMA BeginShape ==
    ASSUME StoreIInv, NEW kind \in {"full", "refresh"}, NEW manual \in BOOLEAN,
           NEW todo \in SUBSET {c \in DOMAIN cand : cand[c].life \in Live},
           Begin(kind, todo, manual), UNCHANGED <<now, cand, tombstones, history, provenance,
                                                  latest, ended>>
    PROVE  Keeps
<1>1. StoreTypeOK /\ now \in Time
  BY DEF StoreIInv, StoreTypeOK
<1>2. started' \in 0 .. MaxRuns
  BY <1>1, Bounds DEF StoreTypeOK, Begin
<1>3. todo \subseteq Id
  BY <1>1 DEF StoreTypeOK
<1>4. run' = [Idle EXCEPT !.kind = kind, !.at = now, !.todo = todo, !.manual = manual]
  BY DEF Begin
<1>5. /\ run' \in [kind : {"none", "full", "refresh"}, at : Time, todo : SUBSET Id,
                   good : BOOLEAN, bad : BOOLEAN, manual : BOOLEAN]
      /\ run'.at = now /\ run'.todo = todo
  BY <1>1, <1>3, <1>4 DEF Idle
<1> QED
  BY <1>1, <1>2, <1>5 DEF Keeps, StoreTypeOK

LEMMA OtherShape ==
    ASSUME StoreIInv,
           \/ \E manual \in BOOLEAN : BeginFull(manual)
           \/ BeginRefresh \/ EndEmptyRefresh \/ FailRun \/ CancelRun
           \/ \E kind \in {"full", "refresh"} : SkipRun(kind)
    PROVE  Keeps
<1>1. StoreTypeOK /\ now \in Time /\ started \in 0 .. MaxRuns
  BY DEF StoreIInv, StoreTypeOK
<1>2. ASSUME cand' = cand \/ cand' = Normalized(cand, provenance)
      PROVE  /\ DOMAIN cand' = DOMAIN cand
             /\ \A c \in DOMAIN cand :
                  /\ cand'[c] \in Candidate
                  /\ cand'[c].at = cand[c].at
                  /\ cand'[c].life \in Terminal <=> cand[c].life \in Terminal
                  /\ cand'[c].life \in Live <=> cand[c].life \in Live
  <2>1. /\ DOMAIN cand \subseteq Id /\ \A c \in DOMAIN cand : cand[c] \in Candidate
        /\ provenance \in [Symbol -> Time \cup {None}]
    BY <1>1 DEF StoreTypeOK
  <2>2. CASE cand' = cand
    BY <2>1, <2>2
  <2>3. CASE cand' = Normalized(cand, provenance)
    BY <2>1, <2>3, NormalizedShape
  <2> QED
    BY <1>2, <2>2, <2>3
<1>3. ASSUME NEW manual \in BOOLEAN, BeginFull(manual) PROVE Keeps
  BY <1>3, BeginShape DEF BeginFull
<1>4. CASE BeginRefresh
  BY <1>4, BeginShape DEF BeginRefresh
<1>5. ASSUME NEW status \in {"COMPLETED", "FAILED"}, Finish(status),
             cand' = cand \/ cand' = Normalized(cand, provenance),
             UNCHANGED <<now, tombstones, history, provenance, ended, started>>
      PROVE  Keeps
  BY <1>1, <1>2, <1>5, IdleType DEF Finish, Keeps
<1>6. CASE EndEmptyRefresh
  BY <1>5, <1>6 DEF EndEmptyRefresh
<1>7. CASE FailRun
  BY <1>5, <1>7 DEF FailRun
<1>8. CASE CancelRun
  BY <1>1, <1>2, <1>8, IdleType DEF CancelRun, Keeps
<1>9. ASSUME NEW kind \in {"full", "refresh"}, SkipRun(kind) PROVE Keeps
  <2>1. cand' = cand \/ cand' = Normalized(cand, provenance)
    BY <1>9 DEF SkipRun
  <2>2. UNCHANGED <<now, tombstones, history, provenance, run, ended, started>>
        /\ latest' = [status |-> "SKIPPED", at |-> now]
    BY <1>9 DEF SkipRun
  <2> QED
    BY <1>1, <1>2, <2>1, <2>2 DEF Keeps, StoreTypeOK
<1> QED
  BY <1>3, <1>4, <1>6, <1>7, <1>8, <1>9

LEMMA RunShapes ==
    ASSUME StoreIInv, RunStep
    PROVE  \/ Keeps
           \/ \E chosen \in SUBSET (Id \ tombstones) : Stores(chosen)
           \/ \E c \in run.todo, gone \in SUBSET DOMAIN cand : RefreshesTo(c, gone)
<1>1. CASE \E ev \in [Symbol -> Evaluation(run.at)] : EndFull(ev)
  BY <1>1, FullShape
<1>2. CASE \E c \in run.todo, o \in Outcome : RefreshOne(c, o)
  BY <1>2, RefreshShape
<1> QED
  BY <1>1, <1>2, OtherShape DEF RunStep

LEMMA KeepsIInv == ASSUME StoreIInv, Keeps PROVE StoreIInv'
<1> USE DEF StoreIInv
<1>1. StoreTypeOK'
  BY DEF StoreTypeOK, Keeps
<1>2. TerminalIsEnded' /\ EndedHasTombstone' /\ EndedStaysEnded'
  BY DEF TerminalIsEnded, EndedHasTombstone, EndedStaysEnded, Keeps
<1>3. TodoIsLive'
  BY DEF TodoIsLive, Keeps
<1>4. StampsArePast'
  BY Bounds DEF StampsArePast, Keeps, StoreTypeOK
<1> QED
  BY <1>1, <1>2, <1>3, <1>4

LEMMA StoresIInv ==
    ASSUME StoreIInv, NEW chosen \in SUBSET (Id \ tombstones), Stores(chosen)
    PROVE  StoreIInv'
<1> USE DEF StoreIInv
<1>1. StoreTypeOK'
  BY IdleType DEF StoreTypeOK, Stores
<1>2. TerminalIsEnded' /\ EndedHasTombstone' /\ EndedStaysEnded'
  BY LivesApart DEF TerminalIsEnded, EndedHasTombstone, EndedStaysEnded, Stores
<1>3. TodoIsLive'
  BY IdleType DEF TodoIsLive, Stores
<1>4. StampsArePast'
  BY Bounds, IdleType DEF StampsArePast, Stores, StoreTypeOK
<1> QED
  BY <1>1, <1>2, <1>3, <1>4

LEMMA RefreshesIInv ==
    ASSUME StoreIInv, NEW c \in run.todo, NEW gone \in SUBSET DOMAIN cand,
           RefreshesTo(c, gone)
    PROVE  StoreIInv'
<1> USE DEF StoreIInv
<1>1. c \in DOMAIN cand /\ cand[c].life \in Live /\ c \in Id
  BY DEF TodoIsLive, StoreTypeOK
<1>2. \/ run' = Idle
      \/ /\ run'.kind = "refresh" /\ run'.at = run.at /\ run'.todo = run.todo \ {c}
         /\ run' \in [kind : {"none", "full", "refresh"}, at : Time, todo : SUBSET Id,
                      good : BOOLEAN, bad : BOOLEAN, manual : BOOLEAN]
  BY DEF RefreshesTo, StoreTypeOK
<1>3. StoreTypeOK'
  <2>1. run' \in [kind : {"none", "full", "refresh"}, at : Time, todo : SUBSET Id,
                  good : BOOLEAN, bad : BOOLEAN, manual : BOOLEAN]
    BY <1>2, IdleType
  <2>2. latest' \in [status : {"NONE", "COMPLETED", "DEGRADED", "FAILED", "SKIPPED"}, at : Time]
    BY DEF RefreshesTo, StoreTypeOK
  <2>3. tombstones' \subseteq Id /\ ended' \subseteq Id
    BY <1>1 DEF RefreshesTo, StoreTypeOK, Ends, StaysLive
  <2> QED
    BY <2>1, <2>2, <2>3 DEF RefreshesTo, StoreTypeOK
<1>4. c \notin ended
  BY <1>1, LivesApart DEF EndedStaysEnded
<1>5. TerminalIsEnded' /\ EndedHasTombstone' /\ EndedStaysEnded'
  <2>1. CASE Ends(c, gone)
    BY <1>1, <1>4, <2>1 DEF TerminalIsEnded, EndedHasTombstone, EndedStaysEnded, RefreshesTo, Ends
  <2>2. CASE StaysLive(c, gone)
    BY <1>1, <1>4, <2>2, LivesApart
       DEF TerminalIsEnded, EndedHasTombstone, EndedStaysEnded, RefreshesTo, StaysLive
  <2> QED
    BY <2>1, <2>2 DEF RefreshesTo
<1>6. TodoIsLive'
  <2>1. ASSUME NEW d \in run.todo \ {c}
        PROVE  d \in DOMAIN cand' /\ cand'[d].life \in Live
    <3>1. d \in DOMAIN cand /\ cand[d].life \in Live
      BY DEF TodoIsLive
    <3>2. d \notin gone
      <4>1. d \notin ended
        BY <3>1, LivesApart DEF EndedStaysEnded
      <4> QED
        BY <2>1, <4>1 DEF RefreshesTo, Ends, StaysLive
    <3> QED
      BY <2>1, <3>1, <3>2 DEF RefreshesTo
  <2> QED
    BY <1>2, <2>1, IdleType DEF TodoIsLive
<1>7. StampsArePast'
  <2>1. /\ now' = now /\ latest'.at \in {latest.at, now} /\ run'.at \in {0, run.at}
        /\ now \in Nat
    BY <1>2, IdleType, Bounds DEF RefreshesTo, StoreTypeOK
  <2> QED
    BY <2>1 DEF StampsArePast, RefreshesTo
<1> QED
  BY <1>3, <1>5, <1>6, <1>7

LEMMA RunStepIInv == ASSUME StoreIInv, RunStep PROVE StoreIInv'
BY RunShapes, KeepsIInv, StoresIInv, RefreshesIInv

LEMMA TickIInv == ASSUME StoreIInv, Tick PROVE StoreIInv'
<1> USE DEF StoreIInv, Tick
<1>1. now \in Nat /\ now' = now + 1 /\ now' \in Time /\ Time \subseteq Nat
  BY Bounds DEF StoreTypeOK, Time
<1>2. StoreTypeOK'
  BY <1>1 DEF StoreTypeOK
<1>3. StampsArePast'
  <2>1. /\ run.at \in Nat /\ latest.at \in Nat
        /\ \A c \in DOMAIN cand : cand[c].at \in Nat
    BY <1>1 DEF StoreTypeOK, Candidate
  <2> QED
    BY <1>1, <2>1 DEF StampsArePast
<1>4. TerminalIsEnded' /\ EndedHasTombstone' /\ EndedStaysEnded' /\ TodoIsLive'
  BY DEF TerminalIsEnded, EndedHasTombstone, EndedStaysEnded, TodoIsLive
<1> QED
  BY <1>2, <1>3, <1>4

LEMMA StoreInitIInv == StoreInit => StoreIInv
<1> SUFFICES ASSUME StoreInit PROVE StoreIInv
  OBVIOUS
<1>1. DOMAIN cand = {} /\ run = Idle /\ ended = {} /\ tombstones = {}
  BY DEF StoreInit
<1>2. StoreTypeOK
  BY <1>1, IdleType, Bounds DEF StoreInit, StoreTypeOK
<1> QED
  BY <1>1, <1>2, IdleType, Bounds
     DEF StoreIInv, StoreInit, TerminalIsEnded, EndedHasTombstone, EndedStaysEnded,
         TodoIsLive, StampsArePast

(* A candidate that ended never comes back in the same process: the        *)
(* terminal keys outlive the payload that _prune_terminal_state drops, and *)
(* no refresh under way has an ended candidate left to do.                 *)
THEOREM EndedNeverReturns == StoreSpec => []EndedStaysEnded
<1>1. StoreIInv /\ [StoreNext]_storeVars => StoreIInv'
  <2> SUFFICES ASSUME StoreIInv, [StoreNext]_storeVars PROVE StoreIInv'
    OBVIOUS
  <2>1. CASE UNCHANGED storeVars
    BY <2>1 DEF storeVars, StoreIInv, StoreTypeOK, TerminalIsEnded, EndedHasTombstone,
       EndedStaysEnded, TodoIsLive, StampsArePast
  <2> QED
    BY <2>1, RunStepIInv, TickIInv DEF StoreNext
<1>2. StoreIInv => EndedStaysEnded
  BY DEF StoreIInv
<1> QED
  BY <1>1, <1>2, StoreInitIInv, PTL DEF StoreSpec

-----------------------------------------------------------------------------
(* What a synchronisation makes of a signal.                               *)

LEMMA DecidedShape ==
    ASSUME NEW x \in Candidate, NEW c \in Id
    PROVE  /\ Decided(x, c) \in Signal
           /\ Decided(x, c).updated = x.at
           /\ Decided(x, c).life = Decide(x, c)
           /\ Decided(x, c).life = "ACTIVE" =>
                /\ Decided(x, c).expires <= ExpiresAt(c)
                /\ Decided(x, c).expires <= x.version + QualLife
<1> DEFINE life == Decide(x, c)
           expires == DecisionExpiry(x, c, life)
           clean == life = "ACTIVE" /\ x.codes = "READY"
<1>1. Decided(x, c) = [life |-> life, expires |-> expires, clean |-> clean, updated |-> x.at]
  BY DEF Decided
<1>2. life \in {"ACTIVE", "WATCH", "REJECTED"}
  BY DEF Decide
<1>3. x.version \in Time /\ x.at \in Time
  BY DEF Candidate
<1>4. /\ x.version + QualLife \in Later /\ ExpiresAt(c) \in Later
      /\ x.version + QualLife \in Nat /\ ExpiresAt(c) \in Nat
  BY <1>3, Bounds
<1>5. /\ expires \in Later
      /\ life = "ACTIVE" => expires <= ExpiresAt(c) /\ expires <= x.version + QualLife
  <2> HIDE DEF life
  <2> QED
    BY <1>4 DEF DecisionExpiry
<1>6. clean \in BOOLEAN
  OBVIOUS
<1> HIDE DEF life, expires, clean
<1> QED
  BY <1>1, <1>2, <1>3, <1>5, <1>6 DEF Signal, life

(* The records a synchronisation may start from.                           *)
Records(cs, run0, sigs) ==
    /\ DOMAIN cs \subseteq Id /\ \A c \in DOMAIN cs : cs[c] \in Candidate
    /\ run0 \in [status : {"NONE", "COMPLETED", "DEGRADED", "FAILED", "SKIPPED"}, at : Time]
    /\ DOMAIN sigs \subseteq Key /\ \A k \in DOMAIN sigs : sigs[k] \in Signal

(* A record is decided anew, left, or invalidated.                         *)
DecidedAnew(k, cs, r) == Seen(k, cs) /\ r = Decided(cs[k.cand], k.cand)

Left(k, cs, run0, sigs, r) ==
    /\ k \in DOMAIN sigs /\ r = sigs[k]
    /\ \/ r.life \in TerminalSignal
       \/ ~Seen(k, cs) /\ ~Superseded(r, run0)

Ended(k, run0, sigs, r) == k \in DOMAIN sigs /\ r = Invalidated(sigs[k], run0.at)

LEMMA SyncedShape ==
    ASSUME NEW cs, NEW run0, NEW sigs, Records(cs, run0, sigs),
           NEW k \in DOMAIN Synced(cs, run0, sigs)
    PROVE  LET r == Synced(cs, run0, sigs)[k]
           IN  \/ DecidedAnew(k, cs, r)
               \/ Left(k, cs, run0, sigs, r)
               \/ Ended(k, run0, sigs, r)
<1> DEFINE r == Synced(cs, run0, sigs)[k]
           new == Decided(cs[k.cand], k.cand)
<1>1. r = SyncedRecord(k, cs, run0, sigs)
      /\ k \in DOMAIN sigs \cup {KeyOf(c, cs) : c \in DOMAIN cs}
  BY DEF Synced
<1>2. CASE k \notin DOMAIN sigs
  <2>1. r = new
    BY <1>1, <1>2 DEF SyncedRecord
  <2>2. Seen(k, cs)
    BY <1>1, <1>2 DEF KeyOf, Seen
  <2> QED
    BY <2>1, <2>2 DEF DecidedAnew
<1>3. CASE k \in DOMAIN sigs /\ Seen(k, cs)
  <2>1. r = IF sigs[k].life \in TerminalSignal /\ new.life # sigs[k].life
            THEN sigs[k] ELSE new
    BY <1>1, <1>3 DEF SyncedRecord, Seen
  <2> QED
    BY <1>3, <2>1 DEF DecidedAnew, Left
<1>4. CASE k \in DOMAIN sigs /\ ~Seen(k, cs)
  <2>1. r = IF sigs[k].life \notin TerminalSignal /\ Superseded(sigs[k], run0)
            THEN Invalidated(sigs[k], run0.at) ELSE sigs[k]
    BY <1>1, <1>4 DEF SyncedRecord, Seen
  <2> QED
    BY <1>4, <2>1 DEF Left, Ended
<1> QED
  BY <1>2, <1>3, <1>4

LEMMA InvalidatedShape ==
    ASSUME NEW r \in Signal, NEW t \in Time
    PROVE  /\ Invalidated(r, t) \in Signal
           /\ Invalidated(r, t).life = "INVALIDATED"
           /\ Invalidated(r, t).updated = t
BY DEF Invalidated, Signal

LEMMA SyncedDomain ==
    ASSUME NEW cs, NEW run0, NEW sigs, Records(cs, run0, sigs)
    PROVE  /\ DOMAIN sigs \subseteq DOMAIN Synced(cs, run0, sigs)
           /\ DOMAIN Synced(cs, run0, sigs) \subseteq Key
<1>1. DOMAIN Synced(cs, run0, sigs) = DOMAIN sigs \cup {KeyOf(c, cs) : c \in DOMAIN cs}
  BY DEF Synced
<1>2. \A c \in DOMAIN cs : c \in Id /\ cs[c].version \in Time
  BY DEF Records, Candidate
<1>3. \A c \in DOMAIN cs : KeyOf(c, cs) \in Key
  BY <1>2 DEF KeyOf, Key
<1> QED
  BY <1>1, <1>3 DEF Records

LEMMA SyncedType ==
    ASSUME NEW cs, NEW run0, NEW sigs, Records(cs, run0, sigs),
           NEW k \in DOMAIN Synced(cs, run0, sigs)
    PROVE  Synced(cs, run0, sigs)[k] \in Signal
<1> DEFINE r == Synced(cs, run0, sigs)[k]
<1>1. CASE DecidedAnew(k, cs, r)
  BY <1>1, DecidedShape DEF DecidedAnew, Seen, Records
<1>2. CASE Left(k, cs, run0, sigs, r)
  BY <1>2 DEF Left, Records
<1>3. CASE Ended(k, run0, sigs, r)
  <2>1. sigs[k] \in Signal /\ run0.at \in Time
    BY <1>3 DEF Ended, Records
  <2> QED
    BY <1>3, <2>1, InvalidatedShape DEF Ended
<1> QED
  BY <1>1, <1>2, <1>3, SyncedShape

-----------------------------------------------------------------------------
(* Margins.                                                                *)

Units(S) == UNION {{s} \X (1 .. MarginOf[s]) : s \in S}

LEMMA UnitsOfOne ==
    ASSUME NEW s \in Symbol
    PROVE  /\ IsFiniteSet({s} \X (1 .. MarginOf[s]))
           /\ Cardinality({s} \X (1 .. MarginOf[s])) = MarginOf[s]
           /\ MarginOf[s] \in Nat
<1>1. MarginOf[s] \in Nat
  BY PipelineAssumption
<1>2. IsFiniteSet({s}) /\ Cardinality({s}) = 1
  BY FS_Singleton
<1>3. IsFiniteSet(1 .. MarginOf[s]) /\ Cardinality(1 .. MarginOf[s]) = MarginOf[s]
  BY SMTT(30), <1>1, FS_Interval
<1>4. /\ IsFiniteSet({s} \X (1 .. MarginOf[s]))
      /\ Cardinality({s} \X (1 .. MarginOf[s])) = Cardinality({s}) * Cardinality(1 .. MarginOf[s])
  BY <1>2, <1>3, FS_Product
<1> QED
  BY <1>1, <1>2, <1>3, <1>4

LEMMA UnitsFinite ==
    ASSUME NEW S \in SUBSET Symbol
    PROVE  /\ IsFiniteSet(S) /\ IsFiniteSet(Units(S))
           /\ MarginSum(S) = Cardinality(Units(S)) /\ MarginSum(S) \in Nat
<1>1. IsFiniteSet(S)
  BY StoreAssumption, FS_Subset
<1> DEFINE T == {{s} \X (1 .. MarginOf[s]) : s \in S}
           f == [s \in S |-> {s} \X (1 .. MarginOf[s])]
<1>2. f \in Surjection(S, T)
  BY DEF Surjection
<1>3. IsFiniteSet(T)
  <2> HIDE DEF f, T
  <2> QED
    BY <1>1, <1>2, FS_Surjection
<1>4. \A U \in T : IsFiniteSet(U)
  BY UnitsOfOne
<1>5. IsFiniteSet(UNION T)
  <2> HIDE DEF T
  <2> QED
    BY <1>3, <1>4, FS_UNION
<1> QED
  BY <1>1, <1>5, FS_CardinalityType DEF Units, MarginSum

(* The margins of fewer symbols are no more, and one more symbol adds no   *)
(* more than its own.                                                      *)
LEMMA MarginIsMonotonic ==
    ASSUME NEW T \in SUBSET Symbol, NEW S \in SUBSET T
    PROVE  MarginSum(S) <= MarginSum(T) /\ Cardinality(S) <= Cardinality(T)
<1>1. S \in SUBSET Symbol
  OBVIOUS
<1>2. Units(S) \in SUBSET Units(T)
  BY DEF Units
<1>3. IsFiniteSet(T) /\ IsFiniteSet(Units(T)) /\ MarginSum(T) = Cardinality(Units(T))
  BY UnitsFinite
<1>4. MarginSum(S) = Cardinality(Units(S))
  BY <1>1, UnitsFinite
<1> QED
  BY <1>2, <1>3, <1>4, FS_Subset

LEMMA MarginOfOneMore ==
    ASSUME NEW S \in SUBSET Symbol, NEW s \in Symbol
    PROVE  /\ MarginSum(S \cup {s}) <= MarginSum(S) + MarginOf[s]
           /\ Cardinality(S \cup {s}) <= Cardinality(S) + 1
           /\ Cardinality(S) \in Nat
<1> DEFINE own == {s} \X (1 .. MarginOf[s])
<1>1. Units(S \cup {s}) = Units(S) \cup own
  BY DEF Units
<1>2. /\ IsFiniteSet(Units(S)) /\ MarginSum(S) = Cardinality(Units(S))
      /\ MarginSum(S) \in Nat /\ IsFiniteSet(S)
  BY UnitsFinite
<1>3. MarginSum(S \cup {s}) = Cardinality(Units(S \cup {s}))
  BY UnitsFinite
<1>4. IsFiniteSet(own) /\ Cardinality(own) = MarginOf[s] /\ MarginOf[s] \in Nat
  BY UnitsOfOne
<1> HIDE DEF own
<1>5. Cardinality(Units(S) \cup own) =
        Cardinality(Units(S)) + Cardinality(own) - Cardinality(Units(S) \cap own)
  BY <1>2, <1>4, FS_Union
<1>6. Cardinality(Units(S) \cap own) \in Nat
  <2>1. (Units(S) \cap own) \in SUBSET own
    OBVIOUS
  <2>2. IsFiniteSet(Units(S) \cap own)
    BY <1>4, <2>1, FS_Subset
  <2> QED
    BY <2>2, FS_CardinalityType
<1>7. Cardinality(S) \in Nat
  BY <1>2, FS_CardinalityType
<1>8. Cardinality(S \cup {s}) <= Cardinality(S) + 1
  <2>1. Cardinality(S \cup {s}) = IF s \in S THEN Cardinality(S) ELSE Cardinality(S) + 1
    BY <1>2, FS_AddElement
  <2> QED
    BY <1>7, <2>1
<1>9. MarginSum(S \cup {s}) <= MarginSum(S) + MarginOf[s]
  <2>1. MarginSum(S \cup {s}) =
          MarginSum(S) + MarginOf[s] - Cardinality(Units(S) \cap own)
    BY <1>1, <1>2, <1>3, <1>4, <1>5, Zenon
  <2> QED
    BY <1>2, <1>4, <1>6, <2>1
<1> QED
  BY <1>7, <1>8, <1>9

LEMMA KeyFinite == IsFiniteSet(Key)
<1>1. IsFiniteSet(Time)
  BY Bounds, FS_Interval DEF Time
<1>2. IsFiniteSet(Symbol) /\ IsFiniteSet(Setup)
  BY StoreAssumption
<1>3. IsFiniteSet((Symbol \X Setup) \X (Time \X Time))
  <2>1. IsFiniteSet(Symbol \X Setup)
    BY <1>2, FS_Product
  <2>2. IsFiniteSet(Time \X Time)
    BY <1>1, FS_Product
  <2> HIDE DEF Time
  <2> QED
    BY <2>1, <2>2, FS_Product
<1> DEFINE f == [k \in Key |-> <<<<k.cand.symbol, k.cand.setup>>, <<k.cand.ref, k.version>>>>]
<1>4. f \in [Key -> (Symbol \X Setup) \X (Time \X Time)]
  BY DEF Key, Id
<1>5. ASSUME NEW a \in Key, NEW b \in Key, f[a] = f[b] PROVE a = b
  <2>1. /\ a.cand.symbol = b.cand.symbol /\ a.cand.setup = b.cand.setup
        /\ a.cand.ref = b.cand.ref /\ a.version = b.version
    BY <1>5
  <2>2. a.cand \in Id /\ b.cand \in Id
    BY DEF Key
  <2>3. a.cand = b.cand
    BY <2>1, <2>2 DEF Id
  <2> QED
    BY <2>1, <2>3 DEF Key
<1>6. f \in Injection(Key, (Symbol \X Setup) \X (Time \X Time))
  BY <1>4, <1>5 DEF Injection, IsInjective
<1> HIDE DEF f
<1> QED
  BY <1>3, <1>6, FS_Injection

(* A finite set's sequences enumerate it.                                  *)
LEMMA SeqsEnumerate ==
    ASSUME NEW S, IsFiniteSet(S), NEW seq \in SetToSeqs(S), NEW x \in S
    PROVE  \E i \in DOMAIN seq : seq[i] = x
<1> DEFINE D == 1 .. Cardinality(S)
<1>1. Cardinality(S) \in Nat
  BY FS_CardinalityType
<1>2. IsFiniteSet(D) /\ Cardinality(D) = Cardinality(S)
  BY <1>1, FS_Interval
<1>3. seq \in [D -> S] /\ \A i, j \in D : i # j => seq[i] # seq[j]
  BY DEF SetToSeqs
<1>4. seq \in Injection(D, S)
  BY <1>3 DEF Injection, IsInjective
<1> HIDE DEF D
<1>5. seq \in Surjection(D, S)
  BY <1>2, <1>4, FS_Injection
<1> QED
  BY <1>3, <1>5 DEF Surjection

(* An approval leaves room for the position that is entered with it.       *)
LEMMA ApprovalLeavesRoom ==
    ASSUME NEW k, NEW sigs, DOMAIN sigs \subseteq Key, Approved(k, sigs)
    PROVE  Room(k.cand.symbol)
<1>1. PICK approved \in Assessments(sigs, positions) : k \in approved
  BY DEF Approved
<1>2. approved \subseteq Key
  BY DEF Assessments, Active
<1>3. IsFiniteSet(approved)
  BY <1>2, KeyFinite, FS_Subset
<1>4. PICK seq \in SetToSeqs(approved) : FitInOrder(seq, positions)
  BY DEF Assessments
<1>5. PICK i \in DOMAIN seq : seq[i] = k
  BY <1>1, <1>3, SeqsEnumerate
<1> DEFINE reserved == {seq[j].cand.symbol : j \in 1 .. i - 1}
<1>6. Fits(k.cand.symbol, positions, reserved)
  BY <1>4, <1>5, Zenon DEF FitInOrder
<1>7. reserved \in SUBSET Symbol
  <2>1. Cardinality(approved) \in Nat
    BY <1>3, FS_CardinalityType
  <2>2. seq \in [1 .. Cardinality(approved) -> approved]
    BY <1>4 DEF SetToSeqs
  <2>3. \A j \in 1 .. i - 1 : j \in 1 .. Cardinality(approved)
    BY <1>5, <2>1, <2>2
  <2>4. \A j \in 1 .. i - 1 : seq[j] \in Key
    BY <1>2, <2>2, <2>3
  <2> QED
    BY <2>4 DEF Key, Id
<1>8. k.cand.symbol \in Symbol
  BY <1>1, <1>2 DEF Key, Id
<1> HIDE DEF reserved
<1>9. Cardinality(reserved) \in Nat /\ MarginSum(reserved) \in Nat
  BY <1>7, UnitsFinite, FS_CardinalityType
<1>10. Open(positions) \in SUBSET Symbol
  BY DEF Open
<1>11. Cardinality(Open(positions)) \in Nat /\ MarginSum(Open(positions)) \in Nat
  BY <1>10, UnitsFinite, FS_CardinalityType
<1>12. MarginOf[k.cand.symbol] \in Nat /\ MaxMargin \in Nat /\ MaxOpenTrades \in Nat
  BY <1>8, PipelineAssumption
<1> QED
  BY <1>6, <1>8, <1>9, <1>11, <1>12 DEF Fits, Room

LEMMA EntryKeepsBound ==
    ASSUME NEW s, Room(s), NEW k,
           DOMAIN positions = Symbol, positions' = [positions EXCEPT ![s] = k]
    PROVE  ExposureBounded'
<1>1. /\ s \in Symbol
      /\ Cardinality(Open(positions)) < MaxOpenTrades
      /\ MarginSum(Open(positions)) + MarginOf[s] <= MaxMargin
  BY DEF Room
<1>2. Open(positions) \in SUBSET Symbol /\ Open(positions') \in SUBSET Symbol
  BY DEF Open
<1>3. Open(positions') \in SUBSET (Open(positions) \cup {s})
  BY DEF Open
<1>4. (Open(positions) \cup {s}) \in SUBSET Symbol
  BY <1>1, <1>2
<1> DEFINE P == Open(positions)
           Q == Open(positions')
<1>5. MarginSum(Q) <= MarginSum(P \cup {s}) /\ Cardinality(Q) <= Cardinality(P \cup {s})
  BY <1>3, <1>4, MarginIsMonotonic
<1>6. /\ MarginSum(P \cup {s}) <= MarginSum(P) + MarginOf[s]
      /\ Cardinality(P \cup {s}) <= Cardinality(P) + 1
      /\ Cardinality(P) \in Nat
  BY <1>1, <1>2, MarginOfOneMore
<1>7. /\ MarginSum(Q) \in Nat /\ MarginSum(P) \in Nat /\ MarginSum(P \cup {s}) \in Nat
      /\ Cardinality(Q) \in Nat /\ Cardinality(P \cup {s}) \in Nat
  BY <1>2, <1>4, UnitsFinite, FS_CardinalityType
<1>8. MarginOf[s] \in Nat /\ MaxMargin \in Nat /\ MaxOpenTrades \in Nat
  BY <1>1, PipelineAssumption
<1>9. Cardinality(Q) <= MaxOpenTrades /\ MarginSum(Q) <= MaxMargin
  <2> HIDE DEF P, Q
  <2>1. Cardinality(P) < MaxOpenTrades /\ MarginSum(P) + MarginOf[s] <= MaxMargin
    BY <1>1 DEF P
  <2> QED
    BY <1>5, <1>6, <1>7, <1>8, <2>1
<1> QED
  BY <1>9 DEF ExposureBounded

LEMMA CloseKeepsBound ==
    ASSUME ExposureBounded, NEW s \in Symbol, DOMAIN positions = Symbol,
           positions' = [positions EXCEPT ![s] = None]
    PROVE  ExposureBounded' /\ \A r : Room(r) => Room(r)'
<1>1. Open(positions) \in SUBSET Symbol /\ Open(positions') \in SUBSET Open(positions)
  BY DEF Open
<1>2. /\ MarginSum(Open(positions')) <= MarginSum(Open(positions))
      /\ Cardinality(Open(positions')) <= Cardinality(Open(positions))
  BY <1>1, MarginIsMonotonic
<1>3. Open(positions') \in SUBSET Symbol
  BY <1>1
<1>4. /\ MarginSum(Open(positions')) \in Nat /\ MarginSum(Open(positions)) \in Nat
      /\ Cardinality(Open(positions')) \in Nat /\ Cardinality(Open(positions)) \in Nat
  BY <1>1, <1>3, UnitsFinite, FS_CardinalityType
<1>5. MaxMargin \in Nat /\ MaxOpenTrades \in Nat
  BY PipelineAssumption
<1>6. ExposureBounded'
  BY <1>2, <1>4, <1>5 DEF ExposureBounded
<1>7. ASSUME NEW r, Room(r) PROVE Room(r)'
  <2>1. r \in Symbol /\ positions[r] = None /\ positions'[r] = None
    BY <1>7 DEF Room
  <2>2. MarginOf[r] \in Nat
    BY <2>1, PipelineAssumption
  <2>3. /\ Cardinality(Open(positions)) < MaxOpenTrades
        /\ MarginSum(Open(positions)) + MarginOf[r] <= MaxMargin
    BY <1>7 DEF Room
  <2>4. /\ Cardinality(Open(positions')) < MaxOpenTrades
        /\ MarginSum(Open(positions')) + MarginOf[r] <= MaxMargin
    BY <1>2, <1>4, <1>5, <2>2, <2>3
  <2> QED
    BY <2>1, <2>4 DEF Room
<1> QED
  BY <1>6, <1>7

-----------------------------------------------------------------------------
(* The invariant of the pipeline.                                          *)

LEMMA SyncKeeps ==
    ASSUME ActiveExpires, SignalsArePast, NEW cs, NEW run0, Records(cs, run0, signals),
           now \in Nat, now' = now, run0.at <= now, \A c \in DOMAIN cs : cs[c].at <= now,
           signals' = Synced(cs, run0, signals)
    PROVE  /\ DOMAIN signals \subseteq DOMAIN signals' /\ DOMAIN signals' \subseteq Key
           /\ \A k \in DOMAIN signals' : signals'[k] \in Signal
           /\ ActiveExpires' /\ SignalsArePast'
           /\ \A k \in DOMAIN signals' : signals'[k].life \notin TerminalSignal =>
                \/ Seen(k, cs)
                \/ k \in DOMAIN signals /\ signals'[k] = signals[k]
<1>1. DOMAIN signals \subseteq DOMAIN signals' /\ DOMAIN signals' \subseteq Key
  BY SyncedDomain
<1>2. \A k \in DOMAIN signals' : signals'[k] \in Signal
  BY SyncedType
<1>3. ASSUME NEW k \in DOMAIN signals'
      PROVE  /\ signals'[k].updated <= now
             /\ signals'[k].life = "ACTIVE" =>
                  /\ signals'[k].expires <= ExpiresAt(k.cand)
                  /\ signals'[k].expires <= k.version + QualLife
             /\ signals'[k].life \notin TerminalSignal =>
                  \/ Seen(k, cs)
                  \/ k \in DOMAIN signals /\ signals'[k] = signals[k]
  <2> DEFINE r == signals'[k]
  <2>1. CASE DecidedAnew(k, cs, r)
    <3>1. /\ k.cand \in DOMAIN cs /\ k.cand \in Id /\ cs[k.cand] \in Candidate
          /\ cs[k.cand].version = k.version /\ r = Decided(cs[k.cand], k.cand)
      BY <2>1 DEF DecidedAnew, Seen, Records
    <3>2. Seen(k, cs)
      BY <2>1 DEF DecidedAnew
    <3> HIDE DEF r
    <3>3. /\ r.updated = cs[k.cand].at
          /\ r.life = "ACTIVE" => /\ r.expires <= ExpiresAt(k.cand)
                                  /\ r.expires <= k.version + QualLife
      BY <3>1, DecidedShape
    <3> QED
      BY <3>1, <3>2, <3>3 DEF r
  <2>2. CASE Left(k, cs, run0, signals, r)
    BY <2>2 DEF Left, ActiveExpires, SignalsArePast
  <2>3. CASE Ended(k, run0, signals, r)
    <3>1. signals[k] \in Signal /\ run0.at \in Time
      BY <2>3 DEF Ended, Records
    <3>2. r.life = "INVALIDATED" /\ r.updated = run0.at
      BY <2>3, <3>1, InvalidatedShape DEF Ended
    <3> QED
      BY <3>2 DEF TerminalSignal
  <2>4. k \in DOMAIN Synced(cs, run0, signals) /\ r = Synced(cs, run0, signals)[k]
    OBVIOUS
  <2> HIDE DEF r
  <2> QED
    BY <2>1, <2>2, <2>3, <2>4, SyncedShape DEF r
<1> QED
  BY <1>1, <1>2, <1>3 DEF ActiveExpires, SignalsArePast

(* What every reader of the signals starts with.                           *)
Reads == signals' = Synced(cand, latest, signals) /\ UNCHANGED <<storeVars, phase>>

(* What the worker has in hand stays as it was, and the positions too.     *)
LEMMA HandKept ==
    ASSUME HandLeavesRoom, ProvedInTime, UNCHANGED <<work, positions>>
    PROVE  HandLeavesRoom' /\ ProvedInTime'
BY DEF HandLeavesRoom, ProvedInTime, InHand, Room, WithinSetup

(* The worker has nothing in hand.                                         *)
LEMMA HandEmpty == ASSUME work' = None PROVE HandLeavesRoom' /\ ProvedInTime'
BY DEF HandLeavesRoom, ProvedInTime, InHand

LEMMA ReadKeeps ==
    ASSUME IInv, Reads
    PROVE  /\ DOMAIN signals \subseteq DOMAIN signals' /\ DOMAIN signals' \subseteq Key
           /\ \A k \in DOMAIN signals' : signals'[k] \in Signal
           /\ StoreIInv' /\ ActiveExpires' /\ SignalsArePast' /\ UnseenAreOld'
<1>1. UNCHANGED <<now, cand, tombstones, history, provenance, run, latest, ended, started>>
  BY DEF Reads, storeVars
<1>2. StoreIInv'
  BY <1>1 DEF IInv, StoreIInv, StoreTypeOK, TerminalIsEnded, EndedHasTombstone,
     EndedStaysEnded, TodoIsLive, StampsArePast
<1>3. /\ Records(cand, latest, signals) /\ now \in Nat /\ latest.at <= now
      /\ \A c \in DOMAIN cand : cand[c].at <= now
  BY Bounds DEF IInv, TypeOK, StoreIInv, StoreTypeOK, StampsArePast, Records
<1>4. /\ DOMAIN signals \subseteq DOMAIN signals' /\ DOMAIN signals' \subseteq Key
      /\ \A k \in DOMAIN signals' : signals'[k] \in Signal
      /\ ActiveExpires' /\ SignalsArePast'
      /\ \A k \in DOMAIN signals' : signals'[k].life \notin TerminalSignal =>
           \/ Seen(k, cand)
           \/ k \in DOMAIN signals /\ signals'[k] = signals[k]
  BY <1>1, <1>3, SyncKeeps DEF IInv, Reads
<1>5. UnseenAreOld'
  BY <1>1, <1>4 DEF UnseenAreOld, IInv, Seen
<1> QED
  BY <1>2, <1>4, <1>5

LEMMA RestartStore == ASSUME StoreIInv, Restart PROVE StoreIInv'
<1>1. /\ DOMAIN cand' = {} /\ run' = Idle /\ ended' = {} /\ tombstones' = {}
      /\ latest' = [status |-> "NONE", at |-> 0] /\ UNCHANGED <<now, started>>
  BY DEF Restart, Forgotten
<1>2. StoreTypeOK'
  BY <1>1, IdleType, Bounds DEF Restart, Forgotten, StoreIInv, StoreTypeOK
<1>3. StampsArePast'
  BY <1>1, IdleType, Bounds DEF StoreIInv, StoreTypeOK, StampsArePast
<1> QED
  BY <1>1, <1>2, <1>3, IdleType
     DEF StoreIInv, TerminalIsEnded, EndedHasTombstone, EndedStaysEnded, TodoIsLive

(* A step of a run keeps a signal without a candidate old, or explained.   *)
LEMMA RunKeepsUnseen ==
    ASSUME IInv, RunStep, UNCHANGED signals
    PROVE  now' = now /\ SignalsArePast' /\ UnseenAreOld'
<1>1. ASSUME now' = now, latest'.at = now
      PROVE  SignalsArePast' /\ UnseenAreOld'
  BY <1>1 DEF IInv, SignalsArePast, UnseenAreOld
<1>2. CASE Keeps
  BY <1>1, <1>2 DEF Keeps, IInv, SignalsArePast, UnseenAreOld, Seen
<1>3. ASSUME NEW chosen \in SUBSET (Id \ tombstones), Stores(chosen)
      PROVE  now' = now /\ SignalsArePast' /\ UnseenAreOld'
  BY <1>1, <1>3 DEF Stores
<1>4. ASSUME NEW c \in run.todo, NEW gone \in SUBSET DOMAIN cand, RefreshesTo(c, gone)
      PROVE  now' = now /\ SignalsArePast' /\ UnseenAreOld'
  <2>1. now' = now
    BY <1>4 DEF RefreshesTo
  <2>2. CASE latest'.at = now
    BY <1>1, <2>1, <2>2
  <2>3. CASE /\ UNCHANGED latest
             /\ \A d \in DOMAIN cand' : cand'[d].version = cand[d].version
    <3>1. SignalsArePast'
      BY <2>1 DEF IInv, SignalsArePast
    <3>2. /\ DOMAIN cand' = DOMAIN cand \ gone /\ ended \subseteq ended' /\ gone \subseteq ended'
      BY <1>4 DEF RefreshesTo, Ends, StaysLive
    <3>3. ASSUME NEW k, Seen(k, cand) PROVE Seen(k, cand') \/ k.cand \in ended' \ DOMAIN cand'
      BY <2>3, <3>2, <3>3 DEF Seen
    <3>4. ASSUME NEW k, k.cand \in ended \ DOMAIN cand PROVE k.cand \in ended' \ DOMAIN cand'
      BY <3>2, <3>4
    <3>5. UnseenAreOld'
      <4> SUFFICES ASSUME latest'.status = "COMPLETED", NEW k \in DOMAIN signals,
                          signals[k].life \notin TerminalSignal
                   PROVE  \/ Seen(k, cand') \/ signals[k].updated <= latest'.at
                          \/ k.cand \in ended' \ DOMAIN cand'
        BY DEF UnseenAreOld, Seen
      <4>1. \/ Seen(k, cand) \/ signals[k].updated <= latest.at
            \/ k.cand \in ended \ DOMAIN cand
        BY <2>3 DEF IInv, UnseenAreOld
      <4> QED
        BY <2>3, <3>3, <3>4, <4>1
    <3> QED
      BY <2>1, <3>1, <3>5
  <2> QED
    BY <1>4, <2>2, <2>3 DEF RefreshesTo
<1> QED
  BY <1>2, <1>3, <1>4, RunShapes DEF IInv

LEMMA ScanningIInv == ASSUME IInv, Scanning PROVE IInv'
<1>1. RunStep /\ UNCHANGED <<phase, signals, commands, work, positions>>
  BY DEF Scanning, pipelineVars
<1>2. StoreIInv'
  BY <1>1, RunStepIInv DEF IInv
<1>3. TypeOK'
  BY <1>1, <1>2 DEF IInv, TypeOK, StoreIInv
<1>4. SignalsArePast' /\ UnseenAreOld'
  BY <1>1, RunKeepsUnseen
<1>5. ActiveExpires' /\ ExposureBounded'
  BY <1>1 DEF IInv, ActiveExpires, ExposureBounded
<1>6. HandLeavesRoom' /\ ProvedInTime'
  BY <1>1, HandKept DEF IInv
<1> QED
  BY <1>2, <1>3, <1>4, <1>5, <1>6 DEF IInv

LEMMA TickPipelineIInv == ASSUME IInv, Tick, UNCHANGED pipelineVars PROVE IInv'
<1>1. UNCHANGED <<phase, signals, commands, work, positions>>
  BY DEF pipelineVars
<1>2. StoreIInv'
  BY TickIInv DEF IInv
<1>3. TypeOK'
  BY <1>1, <1>2 DEF IInv, TypeOK, StoreIInv
<1>4. SignalsArePast'
  <2>1. now \in Nat /\ now' = now + 1 /\ \A k \in DOMAIN signals : signals[k].updated \in Nat
    BY Bounds DEF Tick, IInv, TypeOK, StoreTypeOK, Signal
  <2> QED
    BY <1>1, <2>1 DEF SignalsArePast, IInv
<1>5. ActiveExpires' /\ ExposureBounded'
  BY <1>1 DEF IInv, ActiveExpires, ExposureBounded
<1>6. UnseenAreOld'
  BY <1>1 DEF IInv, UnseenAreOld, Seen, Tick
<1>7. HandLeavesRoom' /\ ProvedInTime'
  BY <1>1, HandKept DEF IInv
<1> QED
  BY <1>2, <1>3, <1>4, <1>5, <1>6, <1>7 DEF IInv

LEMMA RestartIInv == ASSUME IInv, Restart PROVE IInv'
<1>1. /\ UNCHANGED <<now, signals, commands, positions>> /\ phase' = "RECOVERING"
      /\ work' = None
      /\ latest' = [status |-> "NONE", at |-> 0]
  BY DEF Restart, Forgotten
<1>2. StoreIInv'
  BY RestartStore DEF IInv
<1>3. TypeOK'
  BY <1>1, <1>2 DEF IInv, TypeOK, StoreIInv
<1>4. SignalsArePast' /\ ActiveExpires' /\ ExposureBounded' /\ UnseenAreOld'
  BY <1>1 DEF IInv, SignalsArePast, ActiveExpires, ExposureBounded, UnseenAreOld
<1>5. HandLeavesRoom' /\ ProvedInTime'
  BY <1>1, HandEmpty
<1> QED
  BY <1>2, <1>3, <1>4, <1>5 DEF IInv

(* A reader keeps the invariant when it keeps the types of the commands    *)
(* and positions, the exposure, and what is known of the worker's hand.    *)
LEMMA ReaderIInv ==
    ASSUME IInv, Reads, ExposureBounded', HandLeavesRoom', ProvedInTime',
           DOMAIN commands' \subseteq DOMAIN signals',
           \A k \in DOMAIN commands' : commands'[k] \in {"PENDING", "ENTERED", "BLOCKED"},
           work' \in Work(DOMAIN commands') \cup {None},
           positions' \in [Symbol -> DOMAIN commands' \cup {None}]
    PROVE  IInv'
<1>1. /\ DOMAIN signals' \subseteq Key
      /\ \A k \in DOMAIN signals' : signals'[k] \in Signal
      /\ StoreIInv' /\ ActiveExpires' /\ SignalsArePast' /\ UnseenAreOld'
  BY ReadKeeps
<1>2. TypeOK'
  BY <1>1 DEF TypeOK, StoreIInv, Reads, IInv
<1> QED
  BY <1>1, <1>2 DEF IInv

LEMMA ReadSignalsIInv == ASSUME IInv, ReadSignals PROVE IInv'
<1>1. Reads /\ UNCHANGED <<commands, work, positions>>
  BY DEF Reads, ReadSignals
<1>2. DOMAIN signals \subseteq DOMAIN signals'
  BY <1>1, ReadKeeps
<1>3. ExposureBounded' /\ HandLeavesRoom' /\ ProvedInTime'
  BY <1>1, HandKept DEF IInv, ExposureBounded
<1> QED
  BY <1>1, <1>2, <1>3, ReaderIInv DEF IInv, TypeOK

(* A step that leaves positions and hand alone and keeps every command.    *)
LEMMA CommandsIInv ==
    ASSUME IInv, Reads, UNCHANGED <<work, positions>>,
           DOMAIN commands \subseteq DOMAIN commands',
           DOMAIN commands' \subseteq DOMAIN signals',
           \A k \in DOMAIN commands' : commands'[k] \in {"PENDING", "ENTERED", "BLOCKED"}
    PROVE  IInv'
<1>1. ExposureBounded' /\ HandLeavesRoom' /\ ProvedInTime'
  BY HandKept DEF IInv, ExposureBounded
<1>2. positions' \in [Symbol -> DOMAIN commands' \cup {None}]
  BY DEF IInv, TypeOK
<1>3. work' \in Work(DOMAIN commands') \cup {None}
  BY DEF IInv, TypeOK, Work
<1> QED
  BY <1>1, <1>2, <1>3, ReaderIInv

LEMMA EnqueueIInv == ASSUME IInv, NEW k, Enqueue(k) PROVE IInv'
<1>1. /\ Reads /\ UNCHANGED <<work, positions>>
      /\ k \in DOMAIN signals'
      /\ commands' = [j \in DOMAIN commands \cup {k} |->
                        IF j = k THEN "PENDING" ELSE commands[j]]
  BY DEF Reads, Enqueue, CurrentApproval
<1>2. DOMAIN signals \subseteq DOMAIN signals'
  BY <1>1, ReadKeeps
<1>3. /\ DOMAIN commands' = DOMAIN commands \cup {k}
      /\ \A j \in DOMAIN commands' : commands'[j] \in {"PENDING", "ENTERED", "BLOCKED"}
  BY <1>1 DEF IInv, TypeOK
<1> QED
  BY <1>1, <1>2, <1>3, CommandsIInv DEF IInv, TypeOK

LEMMA BlockIInv == ASSUME IInv, NEW k \in DOMAIN commands, Block(k) PROVE IInv'
<1>1. /\ Reads /\ UNCHANGED <<work, positions>>
      /\ commands' = [commands EXCEPT ![k] = "BLOCKED"]
  BY DEF Reads, Block
<1>2. DOMAIN signals \subseteq DOMAIN signals'
  BY <1>1, ReadKeeps
<1>3. /\ DOMAIN commands' = DOMAIN commands
      /\ \A j \in DOMAIN commands' : commands'[j] \in {"PENDING", "ENTERED", "BLOCKED"}
  BY <1>1 DEF IInv, TypeOK
<1> QED
  BY <1>1, <1>2, <1>3, CommandsIInv DEF IInv, TypeOK

(* What is valid and proved now is proved within its setup.                *)
LEMMA RevalidateIInv == ASSUME IInv, NEW k \in DOMAIN commands, Revalidate(k) PROVE IInv'
<1>1. /\ Reads /\ UNCHANGED <<commands, positions>>
      /\ work' = [key |-> k, step |-> "REVALIDATED", proved |-> now]
      /\ CurrentApproval(k, signals')
  BY DEF Reads, Revalidate
<1>2. /\ DOMAIN signals \subseteq DOMAIN signals' /\ DOMAIN signals' \subseteq Key
      /\ \A j \in DOMAIN signals' : signals'[j] \in Signal
      /\ ActiveExpires'
  BY <1>1, ReadKeeps
<1>3. now \in Time
  BY DEF IInv, TypeOK, StoreTypeOK
<1>4. ExposureBounded' /\ HandLeavesRoom'
  BY <1>1 DEF IInv, ExposureBounded, HandLeavesRoom, InHand
<1>5. WithinSetup(k, now)
  <2>1. k \in DOMAIN signals' /\ signals'[k].life = "ACTIVE" /\ now < signals'[k].expires
    BY <1>1 DEF CurrentApproval, Valid
  <2>2. /\ signals'[k].expires <= ExpiresAt(k.cand)
        /\ signals'[k].expires <= k.version + QualLife
    BY <1>2, <2>1 DEF ActiveExpires
  <2>3. k \in Key /\ signals'[k].expires \in Nat /\ now \in Nat
    BY <1>2, <1>3, <2>1, Bounds DEF Signal
  <2>4. ExpiresAt(k.cand) \in Nat /\ k.version + QualLife \in Nat
    BY <2>3, Bounds DEF Key
  <2> QED
    BY <2>1, <2>2, <2>3, <2>4 DEF WithinSetup
<1>6. ProvedInTime'
  BY <1>1, <1>5 DEF ProvedInTime, WithinSetup
<1>7. work' \in Work(DOMAIN commands') \cup {None}
  BY <1>1, <1>3 DEF Work
<1> QED
  BY <1>1, <1>2, <1>4, <1>6, <1>7, ReaderIInv DEF IInv, TypeOK

LEMMA HandType ==
    ASSUME IInv, work # None
    PROVE  work \in Work(DOMAIN commands) /\ work.key \in DOMAIN commands
BY DEF IInv, TypeOK, Work

LEMMA AssessIInv == ASSUME IInv, Assess PROVE IInv'
<1>1. /\ Reads /\ UNCHANGED <<commands, positions>>
      /\ work # None /\ work' = [work EXCEPT !.step = "ASSESSED"]
      /\ Approved(work.key, signals')
  BY DEF Reads, Assess, InHand
<1>2. DOMAIN signals \subseteq DOMAIN signals' /\ DOMAIN signals' \subseteq Key
  BY <1>1, ReadKeeps
<1>3. work \in Work(DOMAIN commands)
  BY <1>1, HandType
<1>4. /\ work'.key = work.key /\ work'.proved = work.proved
      /\ work' \in Work(DOMAIN commands) \cup {None}
  BY <1>1, <1>3 DEF Work
<1>5. Room(work.key.cand.symbol)
  BY <1>1, <1>2, ApprovalLeavesRoom
<1>6. HandLeavesRoom'
  BY <1>1, <1>4, <1>5 DEF HandLeavesRoom, Room
<1>7. ProvedInTime'
  BY <1>1, <1>4 DEF IInv, ProvedInTime, WithinSetup
<1>8. ExposureBounded'
  BY <1>1 DEF IInv, ExposureBounded
<1> QED
  BY <1>1, <1>2, <1>4, <1>6, <1>7, <1>8, ReaderIInv DEF IInv, TypeOK

LEMMA RefuseIInv == ASSUME IInv, Refuse PROVE IInv'
<1>1. PICK to \in {"BLOCKED", "PENDING"} : commands' = [commands EXCEPT ![work.key] = to]
  BY DEF Refuse
<1>2. Reads /\ UNCHANGED positions /\ work' = None
  BY DEF Reads, Refuse
<1>3. DOMAIN signals \subseteq DOMAIN signals'
  BY <1>2, ReadKeeps
<1>4. /\ DOMAIN commands' = DOMAIN commands
      /\ \A j \in DOMAIN commands' : commands'[j] \in {"PENDING", "ENTERED", "BLOCKED"}
  BY <1>1 DEF IInv, TypeOK
<1>5. ExposureBounded' /\ HandLeavesRoom' /\ ProvedInTime'
  BY <1>2, HandEmpty DEF IInv, ExposureBounded
<1> QED
  BY <1>2, <1>3, <1>4, <1>5, ReaderIInv DEF IInv, TypeOK

(* A step that reads nothing leaves the store and the signals alone.       *)
LEMMA StoreKept ==
    ASSUME IInv, UNCHANGED <<storeVars, signals>>
    PROVE  StoreIInv' /\ SignalsArePast' /\ ActiveExpires' /\ UnseenAreOld'
<1>1. UNCHANGED <<now, cand, tombstones, history, provenance, run, latest, ended, started>>
  BY DEF storeVars
<1>2. StoreIInv'
  BY <1>1 DEF IInv, StoreIInv, StoreTypeOK, TerminalIsEnded, EndedHasTombstone,
     EndedStaysEnded, TodoIsLive, StampsArePast
<1>3. SignalsArePast' /\ ActiveExpires' /\ UnseenAreOld'
  BY <1>1 DEF IInv, SignalsArePast, ActiveExpires, UnseenAreOld, Seen
<1> QED
  BY <1>2, <1>3

LEMMA GiveUpIInv == ASSUME IInv, GiveUp PROVE IInv'
<1>1. /\ UNCHANGED <<storeVars, signals, commands, positions>> /\ work' = None
      /\ phase' \in {"RECOVERING", "READY", "FAILED"}
  BY DEF GiveUp, IInv, TypeOK
<1>2. StoreIInv' /\ SignalsArePast' /\ ActiveExpires' /\ UnseenAreOld'
  BY <1>1, StoreKept
<1>3. HandLeavesRoom' /\ ProvedInTime' /\ ExposureBounded'
  BY <1>1, HandEmpty DEF IInv, ExposureBounded
<1>4. TypeOK'
  BY <1>1, <1>2 DEF IInv, TypeOK, StoreIInv
<1> QED
  BY <1>2, <1>3, <1>4 DEF IInv

LEMMA EnterIInv == ASSUME IInv, Enter PROVE IInv'
<1>1. /\ UNCHANGED <<storeVars, phase, signals>> /\ work' = None
      /\ work # None /\ InHand("ASSESSED")
      /\ commands' = [commands EXCEPT ![work.key] = "ENTERED"]
      /\ positions' = [positions EXCEPT ![work.key.cand.symbol] = work.key]
  BY DEF Enter, InHand
<1>2. StoreIInv' /\ SignalsArePast' /\ ActiveExpires' /\ UnseenAreOld'
  BY <1>1, StoreKept
<1>3. positions \in [Symbol -> DOMAIN commands \cup {None}]
  BY DEF IInv, TypeOK
<1>4. Room(work.key.cand.symbol)
  BY <1>1 DEF IInv, HandLeavesRoom
<1>5. ExposureBounded'
  BY <1>1, <1>3, <1>4, EntryKeepsBound
<1>6. HandLeavesRoom' /\ ProvedInTime'
  BY <1>1, HandEmpty
<1>7. /\ DOMAIN commands' = DOMAIN commands
      /\ \A j \in DOMAIN commands' : commands'[j] \in {"PENDING", "ENTERED", "BLOCKED"}
  BY <1>1 DEF IInv, TypeOK
<1>8. positions' \in [Symbol -> DOMAIN commands' \cup {None}]
  BY <1>1, <1>3, <1>7, HandType
<1>9. TypeOK'
  BY <1>1, <1>2, <1>7, <1>8 DEF IInv, TypeOK, StoreIInv
<1> QED
  BY <1>2, <1>5, <1>6, <1>9 DEF IInv

LEMMA CloseIInv == ASSUME IInv, NEW s \in Symbol, Close(s) PROVE IInv'
<1>1. /\ positions' = [positions EXCEPT ![s] = None]
      /\ UNCHANGED <<storeVars, phase, signals, commands, work>>
  BY DEF Close
<1>2. positions \in [Symbol -> DOMAIN commands \cup {None}]
  BY DEF IInv, TypeOK
<1>3. ExposureBounded' /\ \A r : Room(r) => Room(r)'
  BY <1>1, <1>2, CloseKeepsBound DEF IInv
<1>4. StoreIInv' /\ SignalsArePast' /\ ActiveExpires' /\ UnseenAreOld'
  BY <1>1, StoreKept
<1>5. TypeOK'
  BY <1>1, <1>2, <1>4 DEF IInv, TypeOK, StoreIInv
<1>6. HandLeavesRoom'
  BY <1>1, <1>3 DEF IInv, HandLeavesRoom, InHand
<1>7. ProvedInTime'
  BY <1>1 DEF IInv, ProvedInTime, WithinSetup
<1> QED
  BY <1>3, <1>4, <1>5, <1>6, <1>7 DEF IInv

(* The scan of recover() ends: the signals are synchronised with what it   *)
(* found, in the step that records it.                                     *)
LEMMA EndRecoveryIInv ==
    ASSUME IInv, StoreIInv', now' = now, latest'.at = now, EndRecovery
    PROVE  IInv'
<1>1. UNCHANGED <<commands, work, positions>> /\ phase' \in {"READY", "FAILED"}
  BY DEF EndRecovery
<1>2. \/ signals' = Synced(cand', latest', signals)
      \/ UNCHANGED signals
  BY DEF EndRecovery
<1>3. /\ DOMAIN signals \subseteq DOMAIN signals' /\ DOMAIN signals' \subseteq Key
      /\ \A k \in DOMAIN signals' : signals'[k] \in Signal
      /\ ActiveExpires' /\ SignalsArePast'
  <2>1. CASE UNCHANGED signals
    BY <2>1 DEF IInv, TypeOK, ActiveExpires, SignalsArePast
  <2>2. CASE signals' = Synced(cand', latest', signals)
    <3>1. Records(cand', latest', signals) /\ \A c \in DOMAIN cand' : cand'[c].at <= now
      BY DEF Records, StoreIInv, StoreTypeOK, StampsArePast, IInv, TypeOK
    <3>2. now \in Nat /\ latest'.at <= now
      BY Bounds DEF IInv, StoreIInv, StoreTypeOK
    <3> QED
      BY <2>2, <3>1, <3>2, SyncKeeps DEF IInv
  <2> QED
    BY <1>2, <2>1, <2>2
<1>4. UnseenAreOld'
  BY <1>3 DEF SignalsArePast, UnseenAreOld
<1>5. ExposureBounded'
  BY <1>1 DEF IInv, ExposureBounded
<1>6. TypeOK'
  BY <1>1, <1>3 DEF IInv, TypeOK, StoreIInv
<1>7. HandLeavesRoom' /\ ProvedInTime'
  BY <1>1, HandKept DEF IInv
<1> QED
  BY <1>3, <1>4, <1>5, <1>6, <1>7 DEF IInv

LEMMA RecoveryScanIInv == ASSUME IInv, RecoveryScan PROVE IInv'
<1>1. CASE BeginFull(TRUE) /\ UNCHANGED pipelineVars
  <2>1. RunStep
    BY <1>1 DEF RunStep
  <2>2. StoreIInv'
    BY <2>1, RunStepIInv DEF IInv
  <2>3. UNCHANGED <<phase, signals, commands, work, positions>>
    BY <1>1 DEF pipelineVars
  <2>4. SignalsArePast' /\ UnseenAreOld'
    BY <2>1, <2>3, RunKeepsUnseen
  <2>5. TypeOK' /\ ActiveExpires' /\ ExposureBounded'
    BY <2>2, <2>3 DEF IInv, TypeOK, StoreIInv, ActiveExpires, ExposureBounded
  <2>6. HandLeavesRoom' /\ ProvedInTime'
    BY <2>3, HandKept DEF IInv
  <2> QED
    BY <2>2, <2>4, <2>5, <2>6 DEF IInv
<1>2. CASE FailRun /\ EndRecovery
  <2>1. RunStep /\ now' = now /\ latest'.at = now
    BY <1>2 DEF RunStep, FailRun, Finish
  <2>2. StoreIInv'
    BY <2>1, RunStepIInv DEF IInv
  <2> QED
    BY <1>2, <2>1, <2>2, EndRecoveryIInv
<1>3. ASSUME NEW ev \in [Symbol -> Evaluation(run.at)], EndFull(ev), EndRecovery
      PROVE  IInv'
  <2>1. now' = now /\ latest'.at = now
    BY <1>3 DEF EndFull, Finish
  <2>2. StoreIInv'
    BY <1>3, RunStepIInv DEF RunStep, IInv
  <2> QED
    BY <1>3, <2>1, <2>2, EndRecoveryIInv
<1> QED
  BY <1>1, <1>2, <1>3 DEF RecoveryScan

LEMMA InitIInv == Init => IInv
<1> SUFFICES ASSUME Init PROVE IInv
  OBVIOUS
<1>1. StoreIInv
  BY StoreInitIInv DEF Init
<1>2. /\ DOMAIN signals = {} /\ DOMAIN commands = {} /\ phase = "RECOVERING"
      /\ work = None /\ positions = [s \in Symbol |-> None]
  BY DEF Init
<1>3. TypeOK
  BY <1>1, <1>2 DEF TypeOK, StoreIInv
<1>4. SignalsArePast /\ ActiveExpires /\ UnseenAreOld
  BY <1>2 DEF SignalsArePast, ActiveExpires, UnseenAreOld
<1>5. ExposureBounded
  <2>1. Open(positions) = {}
    BY <1>2 DEF Open
  <2>2. Units({}) = {} /\ MarginSum({}) = Cardinality(Units({}))
    BY DEF Units, MarginSum
  <2>3. Cardinality({}) = 0
    BY FS_EmptySet
  <2>4. MaxMargin \in Nat /\ MaxOpenTrades \in Nat
    BY PipelineAssumption
  <2> QED
    BY <2>1, <2>2, <2>3, <2>4 DEF ExposureBounded
<1>6. HandLeavesRoom /\ ProvedInTime
  BY <1>2 DEF HandLeavesRoom, ProvedInTime, InHand
<1> QED
  BY <1>1, <1>3, <1>4, <1>5, <1>6 DEF IInv

LEMMA NextIInv == IInv /\ [Next]_vars => IInv'
<1> SUFFICES ASSUME IInv, [Next]_vars PROVE IInv'
  OBVIOUS
<1>1. CASE UNCHANGED vars
  <2>1. UNCHANGED <<storeVars, phase, signals, commands, work, positions>>
    BY <1>1 DEF vars, pipelineVars
  <2>2. StoreIInv' /\ SignalsArePast' /\ ActiveExpires' /\ UnseenAreOld'
    BY <2>1, StoreKept
  <2>3. HandLeavesRoom' /\ ProvedInTime' /\ ExposureBounded'
    BY <2>1, HandKept DEF IInv, ExposureBounded
  <2>4. TypeOK'
    BY <2>1, <2>2 DEF IInv, TypeOK, StoreIInv
  <2> QED
    BY <2>2, <2>3, <2>4 DEF IInv
<1>2. CASE Next
  BY <1>2, TickPipelineIInv, ScanningIInv, RecoveryScanIInv, ReadSignalsIInv, EnqueueIInv,
     RevalidateIInv, BlockIInv, AssessIInv, RefuseIInv, GiveUpIInv, EnterIInv, CloseIInv,
     RestartIInv DEF Next
<1> QED
  BY <1>1, <1>2

-----------------------------------------------------------------------------
(* Theorems about the pipeline.                                            *)

(* The inductive invariant of the pipeline: candidates, tombstones, runs,  *)
(* signals, commands, the worker's hand and positions stay in step through *)
(* scans, readers, the worker's steps, closes, recovery and restarts.      *)
THEOREM PipelineInvariant == Spec => []IInv
BY InitIInv, NextIInv, PTL DEF Spec

(* The open positions never exceed the slots or the margin that the        *)
(* settings allow, however commands queued against older pictures of the   *)
(* account interleave with closes, scans, restarts and the worker's own    *)
(* steps (RiskService._build_assessments, DemoExecutionService.activate).  *)
THEOREM ExposureIsBounded == Spec => []ExposureBounded
<1>1. IInv => ExposureBounded
  BY DEF IInv
<1> QED
  BY <1>1, PipelineInvariant, PTL

(* Also with restarts and recovery around it, the scanner brings no ended  *)
(* candidate back in the same process (_terminal_keys).                    *)
THEOREM PipelineNeverRevives == Spec => []EndedStaysEnded
<1>1. IInv => EndedStaysEnded
  BY DEF IInv, StoreIInv
<1> QED
  BY <1>1, PipelineInvariant, PTL

(* The signals a reader is given after a COMPLETED run are ACTIVE only for *)
(* current READY decisions, but for those of a candidate pruned since      *)
(* (_synchronize).                                                         *)
THEOREM CompletedRunsLeaveCurrent == Spec => []CompletedRunLeavesCurrent
<1>1. ASSUME IInv PROVE CompletedRunLeavesCurrent
  <2> DEFINE sigs == Synced(cand, latest, signals)
  <2> SUFFICES ASSUME latest.status = "COMPLETED", NEW k \in Active(sigs)
               PROVE  \/ /\ k.cand \in DOMAIN cand
                         /\ cand[k.cand].version = k.version
                         /\ Decide(cand[k.cand], k.cand) = "ACTIVE"
                      \/ /\ k.cand \in ended \ DOMAIN cand
                         /\ latest.at < sigs[k].updated
    BY DEF CompletedRunLeavesCurrent
  <2>1. k \in DOMAIN sigs /\ sigs[k].life = "ACTIVE"
    BY DEF Active
  <2>2. Records(cand, latest, signals)
    BY <1>1 DEF IInv, TypeOK, StoreTypeOK, Records
  <2>3. CASE DecidedAnew(k, cand, sigs[k])
    <3>1. /\ k.cand \in DOMAIN cand /\ cand[k.cand].version = k.version
          /\ sigs[k] = Decided(cand[k.cand], k.cand)
      BY <2>3 DEF DecidedAnew, Seen
    <3>2. k.cand \in Id /\ cand[k.cand] \in Candidate
      BY <2>2, <3>1 DEF Records
    <3> HIDE DEF sigs
    <3>3. Decide(cand[k.cand], k.cand) = "ACTIVE"
      BY <2>1, <3>1, <3>2, DecidedShape
    <3> QED
      BY <3>1, <3>3
  <2>4. CASE Left(k, cand, latest, signals, sigs[k])
    <3>1. /\ k \in DOMAIN signals /\ sigs[k] = signals[k]
          /\ ~Seen(k, cand) /\ ~Superseded(signals[k], latest)
          /\ signals[k].life \notin TerminalSignal
      BY <2>1, <2>4 DEF Left, TerminalSignal
    <3>2. latest.at \in Nat /\ signals[k].updated \in Nat
      BY <2>2, <3>1, Bounds DEF Records, Signal
    <3>3. latest.at < signals[k].updated
      BY <3>1, <3>2 DEF Superseded
    <3>4. k.cand \in ended \ DOMAIN cand
      BY <1>1, <3>1, <3>2, <3>3 DEF IInv, UnseenAreOld
    <3> QED
      BY <3>1, <3>3, <3>4
  <2>5. CASE Ended(k, latest, signals, sigs[k])
    <3>1. signals[k] \in Signal /\ latest.at \in Time
      BY <2>2, <2>5 DEF Ended, Records
    <3> QED
      BY <2>1, <2>5, <3>1, InvalidatedShape DEF Ended
  <2> QED
    BY <2>1, <2>2, <2>3, <2>4, <2>5, SyncedShape
<1> QED
  BY <1>1, PipelineInvariant, PTL

(* An entry was proved before the end of its setup and of the entry candle *)
(* that made it READY: the expiry that _decision_expiry fixes stays with   *)
(* the record through every synchronisation, _validate_signal reads it     *)
(* when the worker revalidates, and no other command takes its place in    *)
(* hand.  When the order is sent the end may have passed: nothing reads    *)
(* the expiry after the revalidation.                                      *)
THEOREM EntriesAreProvedWithinSetup == Spec => EntryProvedWithinSetup
<1> DEFINE Proved == \A s \in Symbol :
        positions[s] = None /\ positions'[s] # None =>
            /\ work # None /\ work.key = positions'[s]
            /\ WithinSetup(work.key, work.proved)
<1>1. ASSUME IInv, [Next]_vars PROVE [Proved]_vars
  <2>1. positions \in [Symbol -> DOMAIN commands \cup {None}]
    BY <1>1 DEF IInv, TypeOK
  <2>2. CASE Enter
    <3>1. /\ positions' = [positions EXCEPT ![work.key.cand.symbol] = work.key]
          /\ work # None
      BY <2>2 DEF Enter, InHand
    <3>2. WithinSetup(work.key, work.proved)
      BY <1>1, <3>1 DEF IInv, ProvedInTime
    <3> QED
      BY <2>1, <3>1, <3>2
  <2>3. ASSUME NEW s \in Symbol, Close(s) PROVE Proved
    BY <2>1, <2>3 DEF Close
  <2>4. CASE UNCHANGED positions
    BY <2>4
  <2>5. \/ UNCHANGED vars \/ UNCHANGED positions
        \/ Enter
        \/ \E s \in Symbol : Close(s)
    BY <1>1 DEF Next, pipelineVars, Scanning, RecoveryScan, EndRecovery, ReadSignals, Enqueue,
       Revalidate, Block, Assess, Refuse, GiveUp, Restart
  <2> HIDE DEF Proved
  <2> QED
    BY <2>2, <2>3, <2>4, <2>5
<1> QED
  BY <1>1, PipelineInvariant, PTL DEF Spec, EntryProvedWithinSetup
=============================================================================
