---------------------------- MODULE TwoPC_proofs ----------------------------
(***************************************************************************)
(* Proofs about the two-phase commit coordinator, for any number of        *)
(* members, batches and crashes.  They assume that a log write which       *)
(* reports an error has not landed (~LateSaves); PreparedIsNamed assumes   *)
(* the same of PREPARE (~LatePrepares).                                    *)
(***************************************************************************)
EXTENDS TwoPC, TLAPS

(* The types the steps below need. *)
LEMMA Types ==
  ASSUME TypeOK
  PROVE  /\ log \in [Tx -> Rec] /\ rec \in Rec
         /\ part \in [Tx -> [P -> PartStates]]
         /\ members \in [Tx -> SUBSET P] /\ outcome \in [Tx -> Outcomes]
         /\ ntx \in Nat /\ MaxTx \in Nat /\ ntx <= MaxTx /\ cur \in Nat
         /\ \A t \in Tx : t \in Nat
  BY TwoPCAssumption DEF TypeOK, Tx

(* Initially the log is empty and nothing has been written. *)
LEMMA InitInd == Init => IndInv
<1> SUFFICES ASSUME Init PROVE IndInv
  OBVIOUS
<1>t. TypeOK
  <2>1. NoRec \in Rec /\ "none" \in PartStates /\ "none" \in Outcomes /\ "down" \in PCs
    BY DEF Rec, RecStates, NoRec, PartStates, Outcomes, PCs
  <2>2. 0 \in 0..MaxTx /\ 0 \in 0..MaxCrashes
    BY TwoPCAssumption
  <2> QED
    BY <2>1, <2>2 DEF Init, TypeOK
<1>1. FreshInv /\ RecordInv /\ NamedInv
  BY TwoPCAssumption DEF Init, FreshInv, RecordInv, NamedInv, PreparedIsNamed,
     NoRec, P, Tx
<1>2. DecisionInv /\ OutcomeInv
  BY DEF Init, DecisionInv, DecisionOf, OutcomeInv, OutcomeOf, NoneCommitted, AllCommitted, NoRec, Tx
<1>3. RunInv /\ ResolveInv /\ QueueInv
  BY DEF Init, RunInv, ResolveInv, QueueInv
<1> QED
  BY <1>t, <1>1, <1>2, <1>3 DEF IndInv

(* The parts about the log and the databases survive any step that leaves  *)
(* both alone.                                                             *)
LEMMA Frame ==
  ASSUME IndInv, UNCHANGED <<log, part, members, outcome, ntx>>, cur' <= ntx
  PROVE  FreshInv' /\ RecordInv' /\ DecisionInv' /\ NamedInv' /\ OutcomeInv'
<1>1. FreshInv' /\ RecordInv' /\ NamedInv'
  BY DEF IndInv, FreshInv, RecordInv, NamedInv, PreparedIsNamed
<1>2. DecisionInv' /\ OutcomeInv'
  BY DEF IndInv, DecisionInv, DecisionOf, OutcomeInv, OutcomeOf, NoneCommitted, AllCommitted
<1> QED
  BY <1>1, <1>2

-----------------------------------------------------------------------------
(* Starting a batch. *)

(* Run: a fresh number, no record yet, nothing written. *)
LEMMA RunInd == ASSUME IndInv, NEW A \in SUBSET P, Run(A) PROVE IndInv'
<1>a. TypeOK /\ FreshInv /\ RecordInv /\ DecisionInv /\ NamedInv /\ QueueInv
      /\ OutcomeInv
  BY DEF IndInv
<1>t. /\ log \in [Tx -> Rec] /\ members \in [Tx -> SUBSET P] /\ ntx \in Nat
      /\ \A t \in Tx : t \in Nat
  BY <1>a, Types
<1>n. ntx + 1 \in Tx
  BY <1>t, Types, <1>a DEF Run, Tx
<1>u. /\ pc = "idle" /\ pc' = "begin" /\ mode' = "run" /\ cur' = ntx + 1
      /\ ntx' = ntx + 1 /\ members' = [members EXCEPT ![ntx + 1] = A]
      /\ rec' = NoRec /\ todo' = A
      /\ UNCHANGED <<log, part, sess, live, outcome, crashes, stale, commit,
                     unresolved, queue, failures>>
  BY DEF Run, durable
<1>f. /\ log[ntx + 1] = NoRec /\ members[ntx + 1] = {} /\ outcome[ntx + 1] = "none"
      /\ \A p \in P : part[ntx + 1][p] = "none"
  BY <1>a, <1>t, <1>n DEF FreshInv, OutcomeInv, OutcomeOf
<1>g. /\ members' \in [Tx -> SUBSET P] /\ members'[ntx + 1] = A
      /\ \A t \in Tx : t # ntx + 1 => members'[t] = members[t]
  BY <1>t, <1>n, <1>u
<1>1. TypeOK'
  <2>1. NoRec \in Rec
    BY DEF NoRec, Rec, RecStates
  <2>2. ntx + 1 \in 0..MaxTx
    BY <1>n, <1>t DEF Tx
  <2> QED
    BY <1>a, <1>u, <1>g, <2>1, <2>2 DEF TypeOK, PCs
<1>2. FreshInv' /\ NamedInv' /\ QueueInv'
  BY <1>a, <1>t, <1>u, <1>g, <1>f DEF FreshInv, NamedInv, PreparedIsNamed, QueueInv
<1>3. RecordInv'
  BY <1>a, <1>u, <1>g, <1>f, <1>n DEF RecordInv, NoRec
<1>4. DecisionInv'
  BY <1>a, <1>u, <1>g, <1>f, <1>n DEF DecisionInv, DecisionOf, NoneCommitted, AllCommitted,
     NoRec
<1>5. RunInv'
  BY <1>u, <1>g, <1>f, <1>n DEF RunInv, NoneCommitted, NoRec
<1>6. ResolveInv'
  BY <1>u DEF ResolveInv
<1>7. OutcomeInv'
  BY <1>a, <1>t, <1>u, <1>g, <1>f, <1>n DEF OutcomeInv, OutcomeOf, AllCommitted
<1> QED
  BY <1>1, <1>2, <1>3, <1>4, <1>5, <1>6, <1>7 DEF IndInv

(* A one-member batch commits its own branch and leaves no record. *)
LEMMA SoloWriteInd == ASSUME IndInv, NEW p \in P, SoloWrite(p) PROVE IndInv'
<1>a. TypeOK /\ FreshInv /\ RecordInv /\ DecisionInv /\ NamedInv /\ QueueInv
      /\ OutcomeInv
  BY DEF IndInv
<1>t. /\ log \in [Tx -> Rec] /\ members \in [Tx -> SUBSET P] /\ ntx \in Nat
      /\ part \in [Tx -> [P -> PartStates]] /\ outcome \in [Tx -> Outcomes]
      /\ \A t \in Tx : t \in Nat
  BY <1>a, Types
<1>n. ntx + 1 \in Tx
  BY <1>t, Types, <1>a DEF SoloWrite, Tx
<1>u. /\ pc = "idle" /\ ntx' = ntx + 1
      /\ members' = [members EXCEPT ![ntx + 1] = {p}]
      /\ UNCHANGED <<log, sess, live, crashes, stale, pc, mode, cur, rec, todo,
                     commit, unresolved, queue, failures>>
  BY DEF SoloWrite, control
<1>s. \E s \in {"committed", "open", "rolledback"} :
        part' = [part EXCEPT ![ntx + 1][p] = s]
  BY DEF SoloWrite
<1>o. \E o \in {"committed", "rolled_back"} :
        outcome' = [outcome EXCEPT ![ntx + 1] = o]
  BY DEF SoloWrite
<1>f. /\ log[ntx + 1] = NoRec /\ members[ntx + 1] = {} /\ outcome[ntx + 1] = "none"
      /\ \A q \in P : part[ntx + 1][q] = "none"
  BY <1>a, <1>t, <1>n DEF FreshInv, OutcomeInv, OutcomeOf
<1>g. /\ members' \in [Tx -> SUBSET P] /\ members'[ntx + 1] = {p}
      /\ \A t \in Tx : t # ntx + 1 => members'[t] = members[t]
  BY <1>t, <1>n, <1>u
<1>h. /\ part' \in [Tx -> [P -> PartStates]]
      /\ \A t \in Tx : t # ntx + 1 => part'[t] = part[t]
      /\ \A q \in P : q # p => part'[ntx + 1][q] = "none"
      /\ part'[ntx + 1][p] \in {"committed", "open", "rolledback"}
  BY <1>t, <1>n, <1>s, <1>f DEF PartStates
<1>i. /\ outcome' \in [Tx -> Outcomes]
      /\ \A t \in Tx : t # ntx + 1 => outcome'[t] = outcome[t]
      /\ outcome'[ntx + 1] \in {"committed", "rolled_back"}
  BY <1>t, <1>n, <1>o DEF Outcomes
<1>1. TypeOK'
  <2>1. ntx + 1 \in 0..MaxTx
    BY <1>n, <1>t DEF Tx
  <2> QED
    BY <1>a, <1>u, <1>g, <1>h, <1>i, <2>1 DEF TypeOK
<1>2. FreshInv' /\ QueueInv'
  <2>1. FreshInv'
    BY <1>a, <1>t, <1>u, <1>g, <1>h, Types DEF FreshInv
  <2>2. QueueInv'
    BY <1>a, <1>u DEF QueueInv
  <2> QED
    BY <2>1, <2>2
<1>8. NamedInv'
  BY <1>a, <1>t, <1>u, <1>f, <1>h, <1>n DEF NamedInv, PreparedIsNamed
<1>3. RecordInv'
  BY <1>a, <1>u, <1>g, <1>f, <1>h, <1>n DEF RecordInv, NoRec
<1>4. DecisionInv'
  BY <1>a, <1>u, <1>g, <1>f, <1>h, <1>n
     DEF DecisionInv, DecisionOf, NoneCommitted, AllCommitted,
     NoRec
<1>5. RunInv' /\ ResolveInv'
  BY <1>u DEF RunInv, ResolveInv
<1>7. OutcomeInv'
  BY <1>a, <1>t, <1>u, <1>g, <1>f, <1>h, <1>i, <1>n DEF OutcomeInv, OutcomeOf, AllCommitted
<1> QED
  BY <1>1, <1>2, <1>3, <1>4, <1>5, <1>7, <1>8 DEF IndInv

-----------------------------------------------------------------------------
(* The first half of Run, up to the decision. *)

(* Begin opens a branch that no record names yet. *)
LEMMA BeginOKInd == ASSUME IndInv, NEW p \in P, BeginOK(p) PROVE IndInv'
<1>a. TypeOK /\ FreshInv /\ RecordInv /\ DecisionInv /\ NamedInv /\ QueueInv
      /\ OutcomeInv
  BY DEF IndInv
<1>b. RunInv /\ ResolveInv
  BY DEF IndInv
<1>t. /\ log \in [Tx -> Rec] /\ rec \in Rec /\ members \in [Tx -> SUBSET P]
      /\ part \in [Tx -> [P -> PartStates]] /\ outcome \in [Tx -> Outcomes]
      /\ ntx \in Nat /\ \A t \in Tx : t \in Nat
  BY <1>a, Types
<1>u. /\ pc = "begin" /\ First(p, todo)
      /\ UNCHANGED <<log, live, members, outcome, ntx, crashes, stale, mode, cur, rec,
                     commit, unresolved, queue, failures>>
      /\ sess' = [sess EXCEPT ![p] = cur] /\ todo' = todo \ {p}
      /\ pc' \in {"work", "begin"}
  BY DEF BeginOK, group
<1>f. /\ mode = "run" /\ cur \in Tx /\ log[cur].state # "committing"
      /\ NoneCommitted(cur) /\ todo \subseteq members[cur]
      /\ log[cur].txids = {} /\ \A q \in P : part[cur][q] \in {"none", "open"}
  BY <1>b, <1>u DEF RunInv
<1>s. \E s \in {"open"} : part' = [part EXCEPT ![cur][p] = s]
  BY DEF BeginOK, SetPart
<1>h. /\ part' \in [Tx -> [P -> PartStates]] /\ p \in members[cur]
      /\ \A t \in Tx : t # cur => part'[t] = part[t]
      /\ \A q \in P : q # p => part'[cur][q] = part[cur][q]
      /\ part'[cur][p] \in {"open"}
  BY <1>t, <1>f, <1>u, <1>s DEF PartStates, First
<1>1. TypeOK'
  <2>1. cur \in 0..MaxTx
    BY <1>a DEF TypeOK
  <2> QED
    BY <1>a, <1>u, <1>h, <2>1 DEF TypeOK, PCs
<1>2. FreshInv' /\ QueueInv'
  BY <1>a, <1>t, <1>u, <1>f, <1>h DEF FreshInv, QueueInv
<1>3. RecordInv'
  BY <1>a, <1>u, <1>f, <1>h DEF RecordInv
<1>4. DecisionInv'
  <2>1. NoneCommitted(cur)'
    BY <1>t, <1>u, <1>f, <1>h DEF NoneCommitted
  <2> SUFFICES ASSUME NEW t \in Tx, t # cur
               PROVE  DecisionOf(t)'
    BY <2>1, <1>u, <1>f DEF DecisionInv, DecisionOf
  <2>2. UNCHANGED <<log[t], part[t], members[t]>>
    BY <1>u, <1>h
  <2>3. DecisionOf(t)
    BY <1>a DEF DecisionInv
  <2> QED
    BY <2>2, <2>3 DEF DecisionOf, NoneCommitted, AllCommitted
<1>5. NamedInv'
  BY <1>a, <1>u, <1>f, <1>h DEF NamedInv, PreparedIsNamed
<1>6. RunInv'
  BY <1>t, <1>u, <1>f, <1>h DEF RunInv, NoneCommitted
<1>7. ResolveInv'
  BY <1>u DEF ResolveInv
<1>8. OutcomeInv'
  BY <1>a, <1>t, <1>u, <1>f, <1>h DEF OutcomeInv, OutcomeOf, AllCommitted, NoneCommitted
<1> QED
  BY <1>1, <1>2, <1>3, <1>4, <1>5, <1>6, <1>7, <1>8 DEF IndInv

(* Prepare: the member it prepares is already named in the log. *)
LEMMA PrepareOKInd == ASSUME IndInv, NEW p \in P, PrepareOK(p) PROVE IndInv'
<1>a. TypeOK /\ FreshInv /\ RecordInv /\ DecisionInv /\ NamedInv /\ QueueInv
      /\ OutcomeInv
  BY DEF IndInv
<1>b. RunInv /\ ResolveInv
  BY DEF IndInv
<1>t. /\ log \in [Tx -> Rec] /\ rec \in Rec /\ members \in [Tx -> SUBSET P]
      /\ part \in [Tx -> [P -> PartStates]] /\ outcome \in [Tx -> Outcomes]
      /\ ntx \in Nat /\ \A t \in Tx : t \in Nat
  BY <1>a, Types
<1>u. /\ pc = "prepare" /\ First(p, todo)
      /\ UNCHANGED <<log, live, members, outcome, ntx, crashes, stale, mode, cur, rec,
                     commit, unresolved, queue, failures>>
      /\ sess' = [sess EXCEPT ![p] = 0] /\ todo' = todo \ {p}
      /\ pc' = IF todo = {p} THEN "voted" ELSE "name"
  BY DEF PrepareOK, group
<1>f. /\ mode = "run" /\ cur \in Tx /\ log[cur].state # "committing"
      /\ NoneCommitted(cur) /\ todo \subseteq members[cur]
      /\ log[cur].state # "absent" /\ rec.order = members[cur]
      /\ rec.txids \subseteq members[cur] /\ log[cur].txids = rec.txids
      /\ p \in rec.txids /\ rec.state = "preparing"
      /\ \A q \in members[cur] \ todo : part[cur][q] = "prepared" /\ q \in rec.txids
  BY <1>b, <1>u DEF RunInv
<1>s. \E s \in {"prepared"} : part' = [part EXCEPT ![cur][p] = s]
  BY DEF PrepareOK, SetPart
<1>h. /\ part' \in [Tx -> [P -> PartStates]] /\ p \in members[cur]
      /\ \A t \in Tx : t # cur => part'[t] = part[t]
      /\ \A q \in P : q # p => part'[cur][q] = part[cur][q]
      /\ part'[cur][p] \in {"prepared"}
  BY <1>t, <1>f, <1>u, <1>s DEF PartStates, First
<1>1. TypeOK'
  <2>1. 0 \in 0..MaxTx
    BY TwoPCAssumption
  <2> QED
    BY <1>a, <1>u, <1>h, <2>1 DEF TypeOK, PCs
<1>2. FreshInv' /\ QueueInv'
  BY <1>a, <1>t, <1>u, <1>f, <1>h DEF FreshInv, QueueInv
<1>3. RecordInv'
  BY <1>a, <1>u, <1>f, <1>h DEF RecordInv
<1>4. DecisionInv'
  <2>1. NoneCommitted(cur)'
    BY <1>t, <1>u, <1>f, <1>h DEF NoneCommitted
  <2> SUFFICES ASSUME NEW t \in Tx, t # cur
               PROVE  DecisionOf(t)'
    BY <2>1, <1>u, <1>f DEF DecisionInv, DecisionOf
  <2>2. UNCHANGED <<log[t], part[t], members[t]>>
    BY <1>u, <1>h
  <2>3. DecisionOf(t)
    BY <1>a DEF DecisionInv
  <2> QED
    BY <2>2, <2>3 DEF DecisionOf, NoneCommitted, AllCommitted
<1>5. NamedInv'
  BY <1>a, <1>u, <1>f, <1>h DEF NamedInv, PreparedIsNamed
<1>6. RunInv'
  BY <1>t, <1>u, <1>f, <1>h DEF RunInv, NoneCommitted
<1>7. ResolveInv'
  BY <1>u DEF ResolveInv
<1>8. OutcomeInv'
  BY <1>a, <1>t, <1>u, <1>f, <1>h DEF OutcomeInv, OutcomeOf, AllCommitted, NoneCommitted
<1> QED
  BY <1>1, <1>2, <1>3, <1>4, <1>5, <1>6, <1>7, <1>8 DEF IndInv

(* A failed Prepare may have prepared the branch, whose name is in the log. *)
LEMMA PrepareFailInd == ASSUME IndInv, NEW p \in P, PrepareFail(p) PROVE IndInv'
<1>a. TypeOK /\ FreshInv /\ RecordInv /\ DecisionInv /\ NamedInv /\ QueueInv
      /\ OutcomeInv
  BY DEF IndInv
<1>b. RunInv /\ ResolveInv
  BY DEF IndInv
<1>t. /\ log \in [Tx -> Rec] /\ rec \in Rec /\ members \in [Tx -> SUBSET P]
      /\ part \in [Tx -> [P -> PartStates]] /\ outcome \in [Tx -> Outcomes]
      /\ ntx \in Nat /\ \A t \in Tx : t \in Nat
  BY <1>a, Types
<1>u. /\ pc = "prepare" /\ First(p, todo)
      /\ UNCHANGED <<log, live, members, outcome, ntx, crashes, stale, mode, cur, rec, todo,
                     commit, unresolved, queue, failures>>
      /\ sess' = (IF p \in XA THEN [sess EXCEPT ![p] = 0] ELSE sess)
      /\ pc' = "abort"
  BY DEF PrepareFail, group
<1>f. /\ mode = "run" /\ cur \in Tx /\ log[cur].state # "committing"
      /\ NoneCommitted(cur) /\ todo \subseteq members[cur]
      /\ log[cur].state # "absent" /\ rec.order = members[cur]
      /\ rec.txids \subseteq members[cur] /\ log[cur].txids = rec.txids
      /\ p \in rec.txids
      /\ \A q \in members[cur] \ todo : part[cur][q] = "prepared" /\ q \in rec.txids
  BY <1>b, <1>u DEF RunInv
<1>s. \E s \in {"rolledback", "prepared", "unsure"} : part' = [part EXCEPT ![cur][p] = s]
  BY DEF PrepareFail, SetPart
<1>h. /\ part' \in [Tx -> [P -> PartStates]] /\ p \in members[cur]
      /\ \A t \in Tx : t # cur => part'[t] = part[t]
      /\ \A q \in P : q # p => part'[cur][q] = part[cur][q]
      /\ part'[cur][p] \in {"rolledback", "prepared", "unsure"}
  BY <1>t, <1>f, <1>u, <1>s DEF PartStates, First
<1>1. TypeOK'
  <2>1. 0 \in 0..MaxTx
    BY TwoPCAssumption
  <2>2. sess' \in [P -> 0..MaxTx]
    BY <1>a, <1>u, <2>1 DEF TypeOK
  <2> QED
    BY <1>a, <1>u, <1>h, <2>2 DEF TypeOK, PCs
<1>2. FreshInv' /\ QueueInv'
  BY <1>a, <1>t, <1>u, <1>f, <1>h DEF FreshInv, QueueInv
<1>3. RecordInv'
  BY <1>a, <1>u, <1>f, <1>h DEF RecordInv
<1>4. DecisionInv'
  <2>1. NoneCommitted(cur)'
    BY <1>t, <1>u, <1>f, <1>h DEF NoneCommitted
  <2> SUFFICES ASSUME NEW t \in Tx, t # cur
               PROVE  DecisionOf(t)'
    BY <2>1, <1>u, <1>f DEF DecisionInv, DecisionOf
  <2>2. UNCHANGED <<log[t], part[t], members[t]>>
    BY <1>u, <1>h
  <2>3. DecisionOf(t)
    BY <1>a DEF DecisionInv
  <2> QED
    BY <2>2, <2>3 DEF DecisionOf, NoneCommitted, AllCommitted
<1>5. NamedInv'
  <2>1. ~LatePrepares => part'[cur][p] # "unsure"
    BY <1>t, <1>f DEF PrepareFail, SetPart
  <2> QED
    BY <2>1, <1>a, <1>u, <1>f, <1>h DEF NamedInv, PreparedIsNamed
<1>6. RunInv'
  BY <1>t, <1>u, <1>f, <1>h DEF RunInv, NoneCommitted
<1>7. ResolveInv'
  BY <1>u DEF ResolveInv
<1>8. OutcomeInv'
  BY <1>a, <1>t, <1>u, <1>f, <1>h DEF OutcomeInv, OutcomeOf, AllCommitted, NoneCommitted
<1> QED
  BY <1>1, <1>2, <1>3, <1>4, <1>5, <1>6, <1>7, <1>8 DEF IndInv

(* A failed Begin changes no branch and no record. *)
LEMMA BeginFailInd == ASSUME IndInv, BeginFail PROVE IndInv'
<1>a. TypeOK /\ FreshInv /\ RecordInv /\ DecisionInv /\ NamedInv /\ QueueInv
      /\ OutcomeInv
  BY DEF IndInv
<1>b. RunInv /\ ResolveInv
  BY DEF IndInv
<1>t. /\ log \in [Tx -> Rec] /\ rec \in Rec /\ members \in [Tx -> SUBSET P]
      /\ part \in [Tx -> [P -> PartStates]] /\ outcome \in [Tx -> Outcomes]
      /\ ntx \in Nat /\ \A t \in Tx : t \in Nat
  BY <1>a, Types
<1>u. /\ pc = "begin" /\ pc' = "rollbackOpen" /\ todo' = members[cur] \ todo
      /\ UNCHANGED <<log, part, sess, live, members, outcome, ntx, crashes, stale,
                     mode, cur, rec, commit, unresolved, queue, failures>>
  BY DEF BeginFail, durable, group
<1>f. /\ mode = "run" /\ cur \in Tx /\ log[cur].state # "committing"
      /\ NoneCommitted(cur) /\ todo \subseteq members[cur]
      /\ log[cur].txids = {} /\ \A q \in P : part[cur][q] \in {"none", "open"}
  BY <1>b, <1>u DEF RunInv
<1>1. TypeOK'
  BY <1>a, <1>t, <1>u, <1>f DEF TypeOK, PCs
<1>2. FreshInv' /\ RecordInv' /\ DecisionInv' /\ NamedInv' /\ OutcomeInv'
  BY <1>a, <1>u, Frame DEF FreshInv
<1>3. RunInv'
  BY <1>t, <1>u, <1>f DEF RunInv, NoneCommitted
<1>4. ResolveInv' /\ QueueInv'
  BY <1>a, <1>u DEF ResolveInv, QueueInv
<1> QED
  BY <1>1, <1>2, <1>3, <1>4 DEF IndInv

(* The writes into the open branches change no vote. *)
LEMMA WorkInd == ASSUME IndInv, Work PROVE IndInv'
<1>a. TypeOK /\ FreshInv /\ RecordInv /\ DecisionInv /\ NamedInv /\ QueueInv
      /\ OutcomeInv
  BY DEF IndInv
<1>b. RunInv /\ ResolveInv
  BY DEF IndInv
<1>t. /\ log \in [Tx -> Rec] /\ rec \in Rec /\ members \in [Tx -> SUBSET P]
      /\ part \in [Tx -> [P -> PartStates]] /\ outcome \in [Tx -> Outcomes]
      /\ ntx \in Nat /\ \A t \in Tx : t \in Nat
  BY <1>a, Types
<1>u. /\ pc = "work" /\ todo' = members[cur] /\ pc' \in {"intent", "rollbackOpen"}
      /\ UNCHANGED <<log, part, sess, live, members, outcome, ntx, crashes, stale,
                     mode, cur, rec, commit, unresolved, queue, failures>>
  BY DEF Work, durable, group
<1>f. /\ mode = "run" /\ cur \in Tx /\ log[cur].state # "committing"
      /\ NoneCommitted(cur) /\ todo \subseteq members[cur]
      /\ log[cur].txids = {} /\ \A q \in P : part[cur][q] \in {"none", "open"}
  BY <1>b, <1>u DEF RunInv
<1>1. TypeOK'
  BY <1>a, <1>t, <1>u, <1>f DEF TypeOK, PCs
<1>2. FreshInv' /\ RecordInv' /\ DecisionInv' /\ NamedInv' /\ OutcomeInv'
  BY <1>a, <1>u, Frame DEF FreshInv
<1>3. RunInv'
  BY <1>t, <1>u, <1>f DEF RunInv, NoneCommitted
<1>4. ResolveInv' /\ QueueInv'
  BY <1>a, <1>u DEF ResolveInv, QueueInv
<1> QED
  BY <1>1, <1>2, <1>3, <1>4 DEF IndInv

(* rollbackOpen: before the intent record nobody has voted. *)
LEMMA RollbackOpenInd == ASSUME IndInv, RollbackOpen PROVE IndInv'
<1>a. TypeOK /\ FreshInv /\ RecordInv /\ DecisionInv /\ NamedInv /\ QueueInv
      /\ OutcomeInv
  BY DEF IndInv
<1>b. RunInv /\ ResolveInv
  BY DEF IndInv
<1>t. /\ log \in [Tx -> Rec] /\ rec \in Rec /\ members \in [Tx -> SUBSET P]
      /\ part \in [Tx -> [P -> PartStates]] /\ outcome \in [Tx -> Outcomes]
      /\ ntx \in Nat /\ \A t \in Tx : t \in Nat
  BY <1>a, Types
<1>u. /\ pc = "rollbackOpen" /\ pc' = "idle" /\ todo' = {}
      /\ sess' = [p \in P |-> IF p \in todo THEN 0 ELSE sess[p]]
      /\ outcome' = [outcome EXCEPT ![cur] = "rolled_back"]
      /\ UNCHANGED <<log, live, members, ntx, crashes, stale, mode, cur, rec,
                     commit, unresolved, queue, failures>>
  BY DEF RollbackOpen
<1>f. /\ mode = "run" /\ cur \in Tx /\ log[cur].state # "committing"
      /\ NoneCommitted(cur) /\ todo \subseteq members[cur]
      /\ log[cur].txids = {} /\ \A q \in P : part[cur][q] \in {"none", "open"}
  BY <1>b, <1>u DEF RunInv
<1>h. /\ part' \in [Tx -> [P -> PartStates]]
      /\ \A t \in Tx : t # cur => part'[t] = part[t]
      /\ \A q \in P : IF q \in todo THEN part'[cur][q] = "rolledback"
                                   ELSE part'[cur][q] = part[cur][q]
  BY <1>t, <1>f DEF RollbackOpen, PartStates
<1>o. /\ outcome' \in [Tx -> Outcomes] /\ outcome'[cur] = "rolled_back"
      /\ \A t \in Tx : t # cur => outcome'[t] = outcome[t]
  BY <1>t, <1>f, <1>u DEF Outcomes
<1>1. TypeOK'
  <2>1. sess' \in [P -> 0..MaxTx]
    BY <1>a, <1>u, TwoPCAssumption DEF TypeOK
  <2> QED
    BY <1>a, <1>u, <1>h, <1>o, <2>1 DEF TypeOK, PCs
<1>2. FreshInv' /\ QueueInv'
  BY <1>a, <1>t, <1>u, <1>f, <1>h DEF FreshInv, QueueInv
<1>3. RecordInv'
  BY <1>a, <1>u, <1>f, <1>h DEF RecordInv
<1>4. DecisionInv'
  <2>1. NoneCommitted(cur)'
    BY <1>t, <1>u, <1>f, <1>h DEF NoneCommitted
  <2> SUFFICES ASSUME NEW t \in Tx, t # cur
               PROVE  DecisionOf(t)'
    BY <2>1, <1>u, <1>f DEF DecisionInv, DecisionOf
  <2>2. UNCHANGED <<log[t], part[t], members[t]>>
    BY <1>u, <1>h
  <2>3. DecisionOf(t)
    BY <1>a DEF DecisionInv
  <2> QED
    BY <2>2, <2>3 DEF DecisionOf, NoneCommitted, AllCommitted
<1>5. NamedInv'
  BY <1>a, <1>u, <1>f, <1>h DEF NamedInv, PreparedIsNamed
<1>6. RunInv'
  BY <1>u DEF RunInv
<1>7. ResolveInv'
  BY <1>u DEF ResolveInv
<1>8. OutcomeInv'
  BY <1>a, <1>t, <1>u, <1>f, <1>h, <1>o DEF OutcomeInv, OutcomeOf, FreshInv, AllCommitted, NoneCommitted
<1> QED
  BY <1>1, <1>2, <1>3, <1>4, <1>5, <1>6, <1>7, <1>8 DEF IndInv

-----------------------------------------------------------------------------
(* Writes of the log. *)

(* The intent record: it names nobody and decides nothing. *)
LEMMA SaveIntentInd ==
  ASSUME IndInv, ~LateSaves, SaveIntent PROVE IndInv'
<1>a. TypeOK /\ FreshInv /\ RecordInv /\ DecisionInv /\ NamedInv /\ QueueInv
      /\ OutcomeInv
  BY DEF IndInv
<1>b. RunInv /\ ResolveInv
  BY DEF IndInv
<1>t. /\ log \in [Tx -> Rec] /\ rec \in Rec /\ members \in [Tx -> SUBSET P]
      /\ part \in [Tx -> [P -> PartStates]] /\ outcome \in [Tx -> Outcomes]
      /\ ntx \in Nat /\ \A t \in Tx : t \in Nat
  BY <1>a, Types
<1>u. /\ pc = "intent"
      /\ UNCHANGED <<part, sess, live, members, outcome, ntx, crashes, stale, mode, cur,
                     todo, commit, unresolved, queue, failures>>
  BY DEF SaveIntent, group
<1>f. /\ mode = "run" /\ cur \in Tx /\ log[cur].state # "committing"
      /\ NoneCommitted(cur) /\ todo \subseteq members[cur]
      /\ log[cur].txids = {} /\ todo = members[cur]
      /\ \A q \in P : part[cur][q] \in {"none", "open"}
  BY <1>b, <1>u DEF RunInv
<1>r. /\ rec' \in Rec
      /\ rec'.state = "preparing" /\ rec'.order = members[cur] /\ rec'.txids = {}
  BY <1>t, <1>f DEF SaveIntent, Rec, RecStates
<1>l. /\ log' \in [Tx -> Rec]
      /\ \A t \in Tx : t # cur => log'[t] = log[t]
      /\ \/ pc' = "name" /\ log'[cur] = rec'
         \/ pc' = "rollbackOpen" /\ log' = log
  BY <1>t, <1>f, <1>r, <1>u DEF SaveIntent, SaveOK, SaveErr
<1>1. TypeOK'
  BY <1>a, <1>t, <1>u, <1>f, <1>r, <1>l DEF TypeOK, PCs
<1>2. FreshInv'
  BY <1>a, <1>t, <1>u, <1>f, <1>l DEF FreshInv
<1>3. RecordInv' /\ QueueInv'
  <2>1. RecordInv'
    BY <1>a, <1>u, <1>f, <1>r, <1>l DEF RecordInv
  <2>2. QueueInv'
    BY <1>a, <1>u DEF QueueInv
  <2> QED
    BY <2>1, <2>2
<1>4. DecisionInv'
  <2> SUFFICES ASSUME NEW t \in Tx
               PROVE  DecisionOf(t)'
    BY DEF DecisionInv
  <2>1. DecisionOf(t)
    BY <1>a DEF DecisionInv
  <2>2. CASE t # cur
    BY <2>1, <2>2, <1>u, <1>l DEF DecisionOf, NoneCommitted, AllCommitted
  <2>3. CASE t = cur
    BY <2>1, <2>3, <1>u, <1>f, <1>r, <1>l DEF DecisionOf, NoneCommitted, AllCommitted
  <2> QED
    BY <2>2, <2>3
<1>5. NamedInv'
  BY <1>a, <1>u, <1>f, <1>r, <1>l DEF NamedInv, PreparedIsNamed
<1>6. RunInv'
  BY <1>t, <1>u, <1>f, <1>r, <1>l DEF RunInv, NoneCommitted, First
<1>7. ResolveInv'
  BY <1>u, <1>l DEF ResolveInv
<1>8. OutcomeInv'
  BY <1>a, <1>u, <1>f, <1>l DEF OutcomeInv, OutcomeOf, AllCommitted
<1> QED
  BY <1>1, <1>2, <1>3, <1>4, <1>5, <1>6, <1>7, <1>8 DEF IndInv

(* The name is in the log before the member is asked to prepare. *)
LEMMA SaveNameInd ==
  ASSUME IndInv, ~LateSaves, NEW p \in P, SaveName(p) PROVE IndInv'
<1>a. TypeOK /\ FreshInv /\ RecordInv /\ DecisionInv /\ NamedInv /\ QueueInv
      /\ OutcomeInv
  BY DEF IndInv
<1>b. RunInv /\ ResolveInv
  BY DEF IndInv
<1>t. /\ log \in [Tx -> Rec] /\ rec \in Rec /\ members \in [Tx -> SUBSET P]
      /\ part \in [Tx -> [P -> PartStates]] /\ outcome \in [Tx -> Outcomes]
      /\ ntx \in Nat /\ \A t \in Tx : t \in Nat
  BY <1>a, Types
<1>u. /\ pc = "name"
      /\ UNCHANGED <<part, sess, live, members, outcome, ntx, crashes, stale, mode, cur,
                     todo, commit, unresolved, queue, failures>>
      /\ First(p, todo)
  BY DEF SaveName, group
<1>f. /\ mode = "run" /\ cur \in Tx /\ log[cur].state # "committing"
      /\ NoneCommitted(cur) /\ todo \subseteq members[cur]
      /\ log[cur].state # "absent" /\ rec.order = members[cur]
      /\ rec.txids \subseteq members[cur] /\ log[cur].txids = rec.txids
      /\ p \in members[cur] /\ rec.state = "preparing"
      /\ \A q \in members[cur] \ todo : part[cur][q] = "prepared" /\ q \in rec.txids
  BY <1>b, <1>u DEF RunInv, First
<1>r. /\ rec' \in Rec
      /\ rec'.state = rec.state /\ rec'.order = rec.order
      /\ rec' = rec \/ rec'.txids = rec.txids \cup {p}
  BY <1>t, <1>f DEF SaveName, Rec, RecStates
<1>k. \/ /\ pc' = "prepare" /\ log' = [log EXCEPT ![cur] = rec']
         /\ rec' = [rec EXCEPT !.txids = @ \cup {p}]
      \/ pc' = "abort" /\ rec' = rec /\ log' = log
  BY DEF SaveName, SaveOK, SaveErr
<1>l. /\ log' \in [Tx -> Rec]
      /\ \A t \in Tx : t # cur => log'[t] = log[t]
      /\ \/ /\ pc' = "prepare" /\ log'[cur] = rec'
            /\ rec'.txids = rec.txids \cup {p}
         \/ pc' = "abort" /\ rec' = rec /\ log' = log
  <2>1. rec' = [rec EXCEPT !.txids = @ \cup {p}] => rec'.txids = rec.txids \cup {p}
    BY <1>t DEF Rec
  <2> QED
    BY <2>1, <1>t, <1>f, <1>r, <1>k
<1>1. TypeOK'
  BY <1>a, <1>t, <1>u, <1>f, <1>r, <1>l DEF TypeOK, PCs
<1>2. FreshInv'
  BY <1>a, <1>t, <1>u, <1>f, <1>l DEF FreshInv
<1>3. RecordInv' /\ QueueInv'
  <2>1. RecordInv'
    BY <1>a, <1>u, <1>f, <1>r, <1>l DEF RecordInv
  <2>2. QueueInv'
    BY <1>a, <1>u DEF QueueInv
  <2> QED
    BY <2>1, <2>2
<1>4. DecisionInv'
  <2> SUFFICES ASSUME NEW t \in Tx
               PROVE  DecisionOf(t)'
    BY DEF DecisionInv
  <2>1. DecisionOf(t)
    BY <1>a DEF DecisionInv
  <2>2. CASE t # cur
    BY <2>1, <2>2, <1>u, <1>l DEF DecisionOf, NoneCommitted, AllCommitted
  <2>3. CASE t = cur
    BY <2>1, <2>3, <1>u, <1>f, <1>r, <1>l DEF DecisionOf, NoneCommitted, AllCommitted
  <2> QED
    BY <2>2, <2>3
<1>5. NamedInv'
  BY <1>a, <1>u, <1>f, <1>r, <1>l DEF NamedInv, PreparedIsNamed
<1>6. RunInv'
  <2>1. \A q \in P : First(q, todo) => q = p
    BY <1>u, TwoPCAssumption DEF First, P
  <2> QED
    BY <2>1, <1>t, <1>u, <1>f, <1>r, <1>l DEF RunInv, NoneCommitted, First
<1>7. ResolveInv'
  BY <1>u, <1>l DEF ResolveInv
<1>8. OutcomeInv'
  BY <1>a, <1>u, <1>f, <1>l DEF OutcomeInv, OutcomeOf, AllCommitted
<1> QED
  BY <1>1, <1>2, <1>3, <1>4, <1>5, <1>6, <1>7, <1>8 DEF IndInv

(* The prepared record: every member is named and no side is taken yet. *)
LEMMA SavePreparedInd ==
  ASSUME IndInv, ~LateSaves, SavePrepared PROVE IndInv'
<1>a. TypeOK /\ FreshInv /\ RecordInv /\ DecisionInv /\ NamedInv /\ QueueInv
      /\ OutcomeInv
  BY DEF IndInv
<1>b. RunInv /\ ResolveInv
  BY DEF IndInv
<1>t. /\ log \in [Tx -> Rec] /\ rec \in Rec /\ members \in [Tx -> SUBSET P]
      /\ part \in [Tx -> [P -> PartStates]] /\ outcome \in [Tx -> Outcomes]
      /\ ntx \in Nat /\ \A t \in Tx : t \in Nat
  BY <1>a, Types
<1>u. /\ pc = "voted"
      /\ UNCHANGED <<part, sess, live, members, outcome, ntx, crashes, mode, cur,
                     todo, commit, unresolved, queue, failures>>
      /\ stale' = stale \ {cur}
  BY DEF SavePrepared, group
<1>f. /\ mode = "run" /\ cur \in Tx /\ log[cur].state # "committing"
      /\ NoneCommitted(cur) /\ todo \subseteq members[cur]
      /\ log[cur].state # "absent" /\ rec.order = members[cur]
      /\ rec.txids \subseteq members[cur] /\ log[cur].txids = rec.txids
      /\ todo = {} /\ \A q \in members[cur] \ todo : part[cur][q] = "prepared" /\ q \in rec.txids
  BY <1>b, <1>u DEF RunInv
<1>r. /\ rec' \in Rec
      /\ rec'.state = "prepared" /\ rec'.order = rec.order /\ rec'.txids = rec.txids
  BY <1>t, <1>f DEF SavePrepared, Rec, RecStates
<1>l. /\ log' \in [Tx -> Rec]
      /\ \A t \in Tx : t # cur => log'[t] = log[t]
      /\ \/ pc' = "decide" /\ log'[cur] = rec'
         \/ pc' = "abort" /\ log' = log
  BY <1>t, <1>f, <1>r, <1>u DEF SavePrepared, SaveOK, SaveErr
<1>1. TypeOK'
  BY <1>a, <1>t, <1>u, <1>f, <1>r, <1>l DEF TypeOK, PCs
<1>2. FreshInv'
  BY <1>a, <1>t, <1>u, <1>f, <1>l DEF FreshInv
<1>3. RecordInv' /\ QueueInv'
  <2>1. RecordInv'
    BY <1>a, <1>u, <1>f, <1>r, <1>l DEF RecordInv
  <2>2. QueueInv'
    BY <1>a, <1>u DEF QueueInv
  <2> QED
    BY <2>1, <2>2
<1>4. DecisionInv'
  <2> SUFFICES ASSUME NEW t \in Tx
               PROVE  DecisionOf(t)'
    BY DEF DecisionInv
  <2>1. DecisionOf(t)
    BY <1>a DEF DecisionInv
  <2>2. CASE t # cur
    BY <2>1, <2>2, <1>u, <1>l DEF DecisionOf, NoneCommitted, AllCommitted
  <2>3. CASE t = cur
    BY <2>1, <2>3, <1>u, <1>f, <1>r, <1>l DEF DecisionOf, NoneCommitted, AllCommitted
  <2> QED
    BY <2>2, <2>3
<1>5. NamedInv'
  BY <1>a, <1>u, <1>f, <1>r, <1>l DEF NamedInv, PreparedIsNamed
<1>6. RunInv'
  BY <1>t, <1>u, <1>f, <1>r, <1>l DEF RunInv, NoneCommitted, First
<1>7. ResolveInv'
  BY <1>u, <1>l DEF ResolveInv
<1>8. OutcomeInv'
  BY <1>a, <1>u, <1>f, <1>l DEF OutcomeInv, OutcomeOf, AllCommitted
<1> QED
  BY <1>1, <1>2, <1>3, <1>4, <1>5, <1>6, <1>7, <1>8 DEF IndInv

(* The decision: from here on every member is to commit, and none has been rolled back. *)
LEMMA SaveDecisionInd ==
  ASSUME IndInv, ~LateSaves, SaveDecision PROVE IndInv'
<1>a. TypeOK /\ FreshInv /\ RecordInv /\ DecisionInv /\ NamedInv /\ QueueInv
      /\ OutcomeInv
  BY DEF IndInv
<1>b. RunInv /\ ResolveInv
  BY DEF IndInv
<1>t. /\ log \in [Tx -> Rec] /\ rec \in Rec /\ members \in [Tx -> SUBSET P]
      /\ part \in [Tx -> [P -> PartStates]] /\ outcome \in [Tx -> Outcomes]
      /\ ntx \in Nat /\ \A t \in Tx : t \in Nat
  BY <1>a, Types
<1>u. /\ pc = "decide"
      /\ UNCHANGED <<part, sess, live, members, outcome, ntx, crashes, stale, mode, cur,
                     queue, failures>>
  BY DEF SaveDecision, group, Unresolved
<1>f. /\ mode = "run" /\ cur \in Tx /\ log[cur].state # "committing"
      /\ NoneCommitted(cur) /\ todo \subseteq members[cur]
      /\ log[cur].state # "absent" /\ rec.order = members[cur]
      /\ rec.txids \subseteq members[cur] /\ log[cur].txids = rec.txids
      /\ todo = {} /\ \A q \in members[cur] \ todo : part[cur][q] = "prepared" /\ q \in rec.txids
  BY <1>b, <1>u DEF RunInv
<1>r. /\ rec' \in Rec
      /\ rec'.state = "committing" /\ rec'.order = rec.order /\ rec'.txids = rec.txids
  BY <1>t, <1>f DEF SaveDecision, Rec, RecStates
<1>l. /\ log' \in [Tx -> Rec]
      /\ \A t \in Tx : t # cur => log'[t] = log[t]
      /\ \/ /\ pc' = "resolve" /\ log'[cur] = rec' /\ commit' = TRUE
            /\ todo' = members[cur] \cap rec.txids /\ unresolved' = {}
         \/ /\ pc' = "abort" /\ log' = log
            /\ UNCHANGED <<todo, commit, unresolved>>
  BY <1>t, <1>f, <1>r, <1>u DEF SaveDecision, SaveOK, SaveErr, Unresolved
<1>1. TypeOK'
  BY <1>a, <1>t, <1>u, <1>f, <1>r, <1>l DEF TypeOK, PCs
<1>2. FreshInv'
  BY <1>a, <1>t, <1>u, <1>f, <1>l DEF FreshInv
<1>3. RecordInv' /\ QueueInv'
  <2>1. RecordInv'
    BY <1>a, <1>u, <1>f, <1>r, <1>l DEF RecordInv
  <2>2. QueueInv'
    BY <1>a, <1>u DEF QueueInv
  <2> QED
    BY <2>1, <2>2
<1>4. DecisionInv'
  <2> SUFFICES ASSUME NEW t \in Tx
               PROVE  DecisionOf(t)'
    BY DEF DecisionInv
  <2>1. DecisionOf(t)
    BY <1>a DEF DecisionInv
  <2>2. CASE t # cur
    BY <2>1, <2>2, <1>u, <1>l DEF DecisionOf, NoneCommitted, AllCommitted
  <2>3. CASE t = cur
    BY <2>1, <2>3, <1>u, <1>f, <1>r, <1>l DEF DecisionOf, NoneCommitted, AllCommitted
  <2> QED
    BY <2>2, <2>3
<1>5. NamedInv'
  BY <1>a, <1>u, <1>f, <1>r, <1>l DEF NamedInv, PreparedIsNamed
<1>6. RunInv'
  BY <1>t, <1>u, <1>f, <1>r, <1>l DEF RunInv, NoneCommitted, First
<1>7. ResolveInv'
  BY <1>t, <1>u, <1>f, <1>r, <1>l DEF ResolveInv
<1>8. OutcomeInv'
  BY <1>a, <1>u, <1>f, <1>l DEF OutcomeInv, OutcomeOf, AllCommitted
<1> QED
  BY <1>1, <1>2, <1>3, <1>4, <1>5, <1>6, <1>7, <1>8 DEF IndInv

(* abort: nobody committed, whether or not the aborting record was saved. *)
LEMMA AbortInd ==
  ASSUME IndInv, ~LateSaves, Abort PROVE IndInv'
<1>a. TypeOK /\ FreshInv /\ RecordInv /\ DecisionInv /\ NamedInv /\ QueueInv
      /\ OutcomeInv
  BY DEF IndInv
<1>b. RunInv /\ ResolveInv
  BY DEF IndInv
<1>t. /\ log \in [Tx -> Rec] /\ rec \in Rec /\ members \in [Tx -> SUBSET P]
      /\ part \in [Tx -> [P -> PartStates]] /\ outcome \in [Tx -> Outcomes]
      /\ ntx \in Nat /\ \A t \in Tx : t \in Nat
  BY <1>a, Types
<1>u. /\ pc = "abort"
      /\ UNCHANGED <<part, sess, live, members, outcome, ntx, crashes, stale, mode, cur,
                     queue, failures>>
      /\ pc' = "resolve" /\ todo' = rec.order \cap rec.txids
      /\ commit' = FALSE /\ unresolved' = {}
  BY DEF Abort, group, Unresolved
<1>f. /\ mode = "run" /\ cur \in Tx /\ log[cur].state # "committing"
      /\ NoneCommitted(cur) /\ todo \subseteq members[cur]
      /\ log[cur].state # "absent" /\ rec.order = members[cur]
      /\ rec.txids \subseteq members[cur] /\ log[cur].txids = rec.txids
  BY <1>b, <1>u DEF RunInv
<1>r. /\ rec' \in Rec
      /\ rec'.state = "aborting" /\ rec'.order = rec.order /\ rec'.txids = rec.txids
  BY <1>t, <1>f DEF Abort, Rec, RecStates
<1>l. /\ log' \in [Tx -> Rec]
      /\ \A t \in Tx : t # cur => log'[t] = log[t]
      /\ log'[cur] = rec' \/ log' = log
  BY <1>t, <1>f, <1>r, <1>u DEF Abort, SaveOK, Unresolved
<1>1. TypeOK'
  BY <1>a, <1>t, <1>u, <1>f, <1>r, <1>l DEF TypeOK, PCs
<1>2. FreshInv'
  BY <1>a, <1>t, <1>u, <1>f, <1>l DEF FreshInv
<1>3. RecordInv' /\ QueueInv'
  <2>1. RecordInv'
    BY <1>a, <1>u, <1>f, <1>r, <1>l DEF RecordInv
  <2>2. QueueInv'
    BY <1>a, <1>u DEF QueueInv
  <2> QED
    BY <2>1, <2>2
<1>4. DecisionInv'
  <2> SUFFICES ASSUME NEW t \in Tx
               PROVE  DecisionOf(t)'
    BY DEF DecisionInv
  <2>1. DecisionOf(t)
    BY <1>a DEF DecisionInv
  <2>2. CASE t # cur
    BY <2>1, <2>2, <1>u, <1>l DEF DecisionOf, NoneCommitted, AllCommitted
  <2>3. CASE t = cur
    BY <2>1, <2>3, <1>u, <1>f, <1>r, <1>l DEF DecisionOf, NoneCommitted, AllCommitted
  <2> QED
    BY <2>2, <2>3
<1>5. NamedInv'
  BY <1>a, <1>u, <1>f, <1>r, <1>l DEF NamedInv, PreparedIsNamed
<1>6. RunInv'
  BY <1>u DEF RunInv
<1>7. ResolveInv'
  <2>1. ~LatePrepares => \A q \in members[cur] \ rec.txids : part[cur][q] # "prepared"
    BY <1>a, <1>t, <1>f DEF NamedInv, PreparedIsNamed
  <2> QED
    BY <2>1, <1>t, <1>u, <1>f, <1>r, <1>l DEF ResolveInv
<1>8. OutcomeInv'
  BY <1>a, <1>u, <1>f, <1>l DEF OutcomeInv, OutcomeOf, AllCommitted
<1> QED
  BY <1>1, <1>2, <1>3, <1>4, <1>5, <1>6, <1>7, <1>8 DEF IndInv

(* The record loses the name of a member that has been resolved. *)
LEMMA ShrinkInd ==
  ASSUME IndInv, ~LateSaves, NEW p \in P, Shrink(p) PROVE IndInv'
<1>a. TypeOK /\ FreshInv /\ RecordInv /\ DecisionInv /\ NamedInv /\ QueueInv
      /\ OutcomeInv
  BY DEF IndInv
<1>b. RunInv /\ ResolveInv
  BY DEF IndInv
<1>t. /\ log \in [Tx -> Rec] /\ rec \in Rec /\ members \in [Tx -> SUBSET P]
      /\ part \in [Tx -> [P -> PartStates]] /\ outcome \in [Tx -> Outcomes]
      /\ ntx \in Nat /\ \A t \in Tx : t \in Nat
  BY <1>a, Types
<1>u. /\ pc = "shrink"
      /\ UNCHANGED <<part, sess, live, members, outcome, ntx, crashes, stale, mode, cur,
                     commit, unresolved, queue, failures>>
      /\ First(p, todo) /\ pc' = "resolve" /\ todo' = todo \ {p}
  BY DEF Shrink, group
<1>f. /\ cur \in Tx /\ log[cur].state # "absent" /\ rec.state # "absent"
      /\ rec.order = members[cur] /\ rec.txids \subseteq log[cur].txids
      /\ todo \subseteq rec.txids /\ (unresolved = {} => todo = rec.txids)
      /\ commit <=> log[cur].state = "committing"
      /\ commit <=> rec.state = "committing"
      /\ commit => \A q \in members[cur] \ rec.txids : part[cur][q] = "committed"
      /\ ~commit /\ ~LatePrepares =>
           \A q \in members[cur] \ rec.txids : part[cur][q] # "prepared"
      /\ commit => part[cur][p] = "committed"
      /\ ~commit /\ ~LatePrepares => part[cur][p] # "prepared"
  BY <1>b, <1>u DEF ResolveInv, First
<1>r. /\ rec' \in Rec
      /\ rec'.state = rec.state /\ rec'.order = rec.order /\ rec'.txids = rec.txids \ {p}
  BY <1>t, <1>f DEF Shrink, Rec, RecStates
<1>l. /\ log' \in [Tx -> Rec]
      /\ \A t \in Tx : t # cur => log'[t] = log[t]
      /\ log'[cur] = rec' \/ log' = log
  BY <1>t, <1>f, <1>r, <1>u DEF Shrink, SaveOK
<1>1. TypeOK'
  BY <1>a, <1>t, <1>u, <1>f, <1>r, <1>l DEF TypeOK, PCs
<1>2. FreshInv'
  BY <1>a, <1>t, <1>u, <1>f, <1>l DEF FreshInv
<1>3. RecordInv' /\ QueueInv'
  <2>1. RecordInv'
    BY <1>a, <1>u, <1>f, <1>r, <1>l DEF RecordInv
  <2>2. QueueInv'
    BY <1>a, <1>u, <1>f, <1>l DEF QueueInv, TypeOK
  <2> QED
    BY <2>1, <2>2
<1>4. DecisionInv'
  <2> SUFFICES ASSUME NEW t \in Tx
               PROVE  DecisionOf(t)'
    BY DEF DecisionInv
  <2>1. DecisionOf(t)
    BY <1>a DEF DecisionInv
  <2>2. CASE t # cur
    BY <2>1, <2>2, <1>u, <1>l DEF DecisionOf, NoneCommitted, AllCommitted
  <2>3. CASE t = cur
    <3>1. log[cur].state \in RecStates
      BY <1>t, <1>f DEF Rec
    <3>2. ~commit => NoneCommitted(cur)
      BY <3>1, <2>1, <2>3, <1>f DEF DecisionOf, RecStates
    <3> QED
      BY <3>2, <2>1, <2>3, <1>u, <1>f, <1>r, <1>l, <1>t DEF DecisionOf, NoneCommitted, AllCommitted
  <2> QED
    BY <2>2, <2>3
<1>5. NamedInv'
  <2>1. ~LatePrepares => \A q \in P : part[cur][q] = "prepared" => q \in rec.txids \ {p}
    BY <1>a, <1>u, <1>f DEF NamedInv, PreparedIsNamed, RecordInv
  <2> QED
    BY <2>1, <1>a, <1>u, <1>f, <1>r, <1>l DEF NamedInv, PreparedIsNamed
<1>6. RunInv'
  BY <1>u DEF RunInv
<1>7. ResolveInv'
  BY <1>t, <1>u, <1>f, <1>r, <1>l, <1>a DEF ResolveInv, First
<1>8. OutcomeInv'
  BY <1>a, <1>u, <1>f, <1>r, <1>l DEF OutcomeInv, OutcomeOf, AllCommitted
<1> QED
  BY <1>1, <1>2, <1>3, <1>4, <1>5, <1>6, <1>7, <1>8 DEF IndInv

-----------------------------------------------------------------------------
(* resolve. *)

(* A record under another decision than commit: nobody committed. *)
LEMMA Undecided ==
  ASSUME TypeOK, DecisionInv, NEW t \in Tx, log[t].state # "absent",
         log[t].state # "committing"
  PROVE  NoneCommitted(t)
<1>1. log[t].state \in RecStates
  BY DEF TypeOK, Rec
<1> QED
  BY <1>1 DEF DecisionInv, DecisionOf, RecStates

(* CommitPrepared happens only under a durable commit decision. *)
LEMMA CommitPreparedInd == ASSUME IndInv, NEW p \in P, CommitPrepared(p) PROVE IndInv'
<1>a. TypeOK /\ FreshInv /\ RecordInv /\ DecisionInv /\ NamedInv /\ QueueInv
      /\ OutcomeInv
  BY DEF IndInv
<1>b. RunInv /\ ResolveInv
  BY DEF IndInv
<1>t. /\ log \in [Tx -> Rec] /\ rec \in Rec /\ members \in [Tx -> SUBSET P]
      /\ part \in [Tx -> [P -> PartStates]] /\ outcome \in [Tx -> Outcomes]
      /\ ntx \in Nat /\ \A t \in Tx : t \in Nat
  BY <1>a, Types
<1>u. /\ pc = "resolve" /\ First(p, todo)
      /\ UNCHANGED <<log, sess, live, members, outcome, ntx, crashes, stale, mode, cur,
                     rec, todo, commit, unresolved, queue, failures>>
      /\ commit /\ pc' = "shrink"
  BY DEF CommitPrepared, group
<1>f. /\ cur \in Tx /\ log[cur].state # "absent" /\ rec.state # "absent"
      /\ rec.order = members[cur] /\ rec.txids \subseteq log[cur].txids
      /\ todo \subseteq rec.txids /\ (unresolved = {} => todo = rec.txids)
      /\ commit <=> log[cur].state = "committing"
      /\ commit <=> rec.state = "committing"
      /\ commit => \A q \in members[cur] \ rec.txids : part[cur][q] = "committed"
      /\ ~commit /\ ~LatePrepares =>
           \A q \in members[cur] \ rec.txids : part[cur][q] # "prepared"
  BY <1>b, <1>u DEF ResolveInv
<1>m. p \in todo /\ p \in members[cur] /\ p \in log[cur].txids
  BY <1>a, <1>u, <1>f DEF First, RecordInv
<1>h. /\ part' \in [Tx -> [P -> PartStates]]
      /\ \A t \in Tx : t # cur => part'[t] = part[t]
      /\ \A q \in P : q # p => part'[cur][q] = part[cur][q]
      /\ part[cur][p] = "prepared" /\ part'[cur][p] = "committed"
  BY <1>t, <1>f DEF CommitPrepared, SetPart, PartStates
<1>n. ~commit => NoneCommitted(cur)
  BY <1>a, <1>f, Undecided
<1>1. TypeOK'
  BY <1>a, <1>u, <1>h DEF TypeOK, PCs
<1>2. FreshInv' /\ QueueInv'
  BY <1>a, <1>t, <1>u, <1>f, <1>h DEF FreshInv, QueueInv
<1>3. RecordInv'
  BY <1>a, <1>u, <1>m, <1>h DEF RecordInv
<1>4. DecisionInv'
  <2> SUFFICES ASSUME NEW t \in Tx
               PROVE  DecisionOf(t)'
    BY DEF DecisionInv
  <2>1. DecisionOf(t)
    BY <1>a DEF DecisionInv
  <2>2. CASE t # cur
    BY <2>1, <2>2, <1>u, <1>h DEF DecisionOf, NoneCommitted, AllCommitted
  <2>3. CASE t = cur
    BY <2>1, <2>3, <1>t, <1>u, <1>f, <1>m, <1>h, <1>n
       DEF DecisionOf, NoneCommitted, AllCommitted
  <2> QED
    BY <2>2, <2>3
<1>5. NamedInv'
  BY <1>a, <1>u, <1>m, <1>h DEF NamedInv, PreparedIsNamed
<1>6. RunInv'
  BY <1>u DEF RunInv
<1>7. ResolveInv'
  <2>1. \A q \in P : First(q, todo) => q = p
    BY <1>u, TwoPCAssumption DEF First, P
  <2> QED
    BY <2>1, <1>t, <1>u, <1>f, <1>m, <1>h DEF ResolveInv, First
<1>8. OutcomeInv'
  BY <1>a, <1>t, <1>u, <1>f, <1>h DEF OutcomeInv, OutcomeOf, AllCommitted
<1> QED
  BY <1>1, <1>2, <1>3, <1>4, <1>5, <1>6, <1>7, <1>8 DEF IndInv

(* RollbackPrepared happens only under a decision that is not commit. *)
LEMMA RollbackPreparedInd == ASSUME IndInv, NEW p \in P, RollbackPrepared(p) PROVE IndInv'
<1>a. TypeOK /\ FreshInv /\ RecordInv /\ DecisionInv /\ NamedInv /\ QueueInv
      /\ OutcomeInv
  BY DEF IndInv
<1>b. RunInv /\ ResolveInv
  BY DEF IndInv
<1>t. /\ log \in [Tx -> Rec] /\ rec \in Rec /\ members \in [Tx -> SUBSET P]
      /\ part \in [Tx -> [P -> PartStates]] /\ outcome \in [Tx -> Outcomes]
      /\ ntx \in Nat /\ \A t \in Tx : t \in Nat
  BY <1>a, Types
<1>u. /\ pc = "resolve" /\ First(p, todo)
      /\ UNCHANGED <<log, sess, live, members, outcome, ntx, crashes, stale, mode, cur,
                     rec, todo, commit, unresolved, queue, failures>>
      /\ ~commit /\ pc' = "shrink"
  BY DEF RollbackPrepared, group
<1>f. /\ cur \in Tx /\ log[cur].state # "absent" /\ rec.state # "absent"
      /\ rec.order = members[cur] /\ rec.txids \subseteq log[cur].txids
      /\ todo \subseteq rec.txids /\ (unresolved = {} => todo = rec.txids)
      /\ commit <=> log[cur].state = "committing"
      /\ commit <=> rec.state = "committing"
      /\ commit => \A q \in members[cur] \ rec.txids : part[cur][q] = "committed"
      /\ ~commit /\ ~LatePrepares =>
           \A q \in members[cur] \ rec.txids : part[cur][q] # "prepared"
  BY <1>b, <1>u DEF ResolveInv
<1>m. p \in todo /\ p \in members[cur] /\ p \in log[cur].txids
  BY <1>a, <1>u, <1>f DEF First, RecordInv
<1>h. /\ part' \in [Tx -> [P -> PartStates]]
      /\ \A t \in Tx : t # cur => part'[t] = part[t]
      /\ \A q \in P : q # p => part'[cur][q] = part[cur][q]
      /\ \/ part[cur][p] = "prepared" /\ part'[cur][p] = "rolledback"
         \/ part[cur][p] # "prepared" /\ part'[cur][p] = part[cur][p]
  <2>1. IF part[cur][p] = "prepared"
          THEN part' = [part EXCEPT ![cur][p] = "rolledback"] ELSE part' = part
    BY DEF RollbackPrepared, SetPart
  <2>2. CASE part[cur][p] = "prepared"
    <3>1. part' = [part EXCEPT ![cur] = [part[cur] EXCEPT ![p] = "rolledback"]]
      BY <2>1, <2>2
    <3>2. cur \in Tx /\ "rolledback" \in PartStates
      BY <1>f DEF PartStates
    <3>3. [part[cur] EXCEPT ![p] = "rolledback"] \in [P -> PartStates]
      BY <3>2, <1>t
    <3>4. /\ part' \in [Tx -> [P -> PartStates]]
          /\ part'[cur] = [part[cur] EXCEPT ![p] = "rolledback"]
          /\ \A t \in Tx : t # cur => part'[t] = part[t]
      BY <3>1, <3>2, <3>3, <1>t
    <3>5. part'[cur][p] = "rolledback" /\ \A q \in P : q # p => part'[cur][q] = part[cur][q]
      BY <3>2, <3>4, <1>t
    <3> QED
      BY <2>2, <3>4, <3>5
  <2>3. CASE part[cur][p] # "prepared"
    BY <2>1, <2>3, <1>t
  <2> QED
    BY <2>2, <2>3
<1>n. ~commit => NoneCommitted(cur)
  BY <1>a, <1>f, Undecided
<1>1. TypeOK'
  BY <1>a, <1>u, <1>h DEF TypeOK, PCs
<1>2. FreshInv' /\ QueueInv'
  BY <1>a, <1>t, <1>u, <1>f, <1>h DEF FreshInv, QueueInv
<1>3. RecordInv'
  BY <1>a, <1>u, <1>m, <1>h DEF RecordInv
<1>4. DecisionInv'
  <2> SUFFICES ASSUME NEW t \in Tx
               PROVE  DecisionOf(t)'
    BY DEF DecisionInv
  <2>1. DecisionOf(t)
    BY <1>a DEF DecisionInv
  <2>2. CASE t # cur
    BY <2>1, <2>2, <1>u, <1>h DEF DecisionOf, NoneCommitted, AllCommitted
  <2>3. CASE t = cur
    BY <2>1, <2>3, <1>t, <1>u, <1>f, <1>m, <1>h, <1>n
       DEF DecisionOf, NoneCommitted, AllCommitted
  <2> QED
    BY <2>2, <2>3
<1>5. NamedInv'
  BY <1>a, <1>u, <1>m, <1>h DEF NamedInv, PreparedIsNamed
<1>6. RunInv'
  BY <1>u DEF RunInv
<1>7. ResolveInv'
  <2>1. \A q \in P : First(q, todo) => q = p
    BY <1>u, TwoPCAssumption DEF First, P
  <2> QED
    BY <2>1, <1>t, <1>u, <1>f, <1>m, <1>h DEF ResolveInv, First
<1>8. OutcomeInv'
  BY <1>a, <1>t, <1>u, <1>f, <1>h DEF OutcomeInv, OutcomeOf, AllCommitted
<1> QED
  BY <1>1, <1>2, <1>3, <1>4, <1>5, <1>6, <1>7, <1>8 DEF IndInv

(* A member that cannot be resolved keeps its name in the record. *)
LEMMA ResolveFailInd == ASSUME IndInv, NEW p \in P, ResolveFail(p) PROVE IndInv'
<1>a. TypeOK /\ FreshInv /\ RecordInv /\ DecisionInv /\ NamedInv /\ QueueInv
      /\ OutcomeInv
  BY DEF IndInv
<1>b. RunInv /\ ResolveInv
  BY DEF IndInv
<1>t. /\ log \in [Tx -> Rec] /\ rec \in Rec /\ members \in [Tx -> SUBSET P]
      /\ part \in [Tx -> [P -> PartStates]] /\ outcome \in [Tx -> Outcomes]
      /\ ntx \in Nat /\ \A t \in Tx : t \in Nat
  BY <1>a, Types
<1>u. /\ pc = "resolve" /\ First(p, todo)
      /\ UNCHANGED <<log, sess, live, members, outcome, ntx, crashes, stale, mode, cur,
                     rec, commit, queue, failures, pc>>
      /\ todo' = todo \ {p} /\ unresolved' = unresolved \cup {p}
  BY DEF ResolveFail, group
<1>f. /\ cur \in Tx /\ log[cur].state # "absent" /\ rec.state # "absent"
      /\ rec.order = members[cur] /\ rec.txids \subseteq log[cur].txids
      /\ todo \subseteq rec.txids /\ (unresolved = {} => todo = rec.txids)
      /\ commit <=> log[cur].state = "committing"
      /\ commit <=> rec.state = "committing"
      /\ commit => \A q \in members[cur] \ rec.txids : part[cur][q] = "committed"
      /\ ~commit /\ ~LatePrepares =>
           \A q \in members[cur] \ rec.txids : part[cur][q] # "prepared"
  BY <1>b, <1>u DEF ResolveInv
<1>m. p \in todo /\ p \in members[cur] /\ p \in log[cur].txids
  BY <1>a, <1>u, <1>f DEF First, RecordInv
<1>h. /\ part' \in [Tx -> [P -> PartStates]]
      /\ \A t \in Tx : t # cur => part'[t] = part[t]
      /\ \A q \in P : q # p => part'[cur][q] = part[cur][q]
      /\ \/ part'[cur][p] = part[cur][p]
         \/ /\ part[cur][p] = "prepared"
            /\ part'[cur][p] = "committed" /\ commit
         \/ /\ part[cur][p] = "prepared"
            /\ part'[cur][p] = "rolledback" /\ ~commit
  <2>1. CASE UNCHANGED part
    BY <2>1, <1>t
  <2>2. CASE part[cur][p] = "prepared" /\ commit
             /\ part' = [part EXCEPT ![cur][p] = "committed"]
    BY <2>2, <1>t, <1>f DEF PartStates
  <2>3. CASE part[cur][p] = "prepared" /\ ~commit
             /\ part' = [part EXCEPT ![cur][p] = "rolledback"]
    BY <2>3, <1>t, <1>f DEF PartStates
  <2> QED
    BY <2>1, <2>2, <2>3 DEF ResolveFail, SetPart
<1>n. ~commit => NoneCommitted(cur)
  BY <1>a, <1>f, Undecided
<1>1. TypeOK'
  BY <1>a, <1>u, <1>h DEF TypeOK, PCs
<1>2. FreshInv' /\ QueueInv'
  BY <1>a, <1>t, <1>u, <1>f, <1>h DEF FreshInv, QueueInv
<1>3. RecordInv'
  BY <1>a, <1>u, <1>m, <1>h DEF RecordInv
<1>4. DecisionInv'
  <2> SUFFICES ASSUME NEW t \in Tx
               PROVE  DecisionOf(t)'
    BY DEF DecisionInv
  <2>1. DecisionOf(t)
    BY <1>a DEF DecisionInv
  <2>2. CASE t # cur
    BY <2>1, <2>2, <1>u, <1>h DEF DecisionOf, NoneCommitted, AllCommitted
  <2>3. CASE t = cur /\ commit
    <3>1. \A q \in members[cur] : \/ part[cur][q] = "committed"
                                  \/ part[cur][q] = "prepared" /\ q \in log[cur].txids
      BY <2>1, <2>3, <1>f DEF DecisionOf
    <3>2. \A q \in members[cur] : \/ part'[cur][q] = "committed"
                                  \/ part'[cur][q] = "prepared" /\ q \in log[cur].txids
      BY <3>1, <2>3, <1>t, <1>f, <1>h
    <3> QED
      BY <3>2, <2>3, <1>u, <1>f DEF DecisionOf
  <2>4. CASE t = cur /\ ~commit
    <3>1. \A q \in members[cur] : part'[cur][q] # "committed"
      BY <2>4, <1>t, <1>f, <1>h, <1>n DEF NoneCommitted
    <3> QED
      BY <3>1, <2>4, <1>u, <1>f DEF DecisionOf, NoneCommitted
  <2> QED
    BY <2>2, <2>3, <2>4
<1>5. NamedInv'
  BY <1>a, <1>u, <1>m, <1>h DEF NamedInv, PreparedIsNamed
<1>6. RunInv'
  BY <1>u DEF RunInv
<1>7. ResolveInv'
  BY <1>t, <1>u, <1>f, <1>m, <1>h DEF ResolveInv
<1>8. OutcomeInv'
  <2> SUFFICES ASSUME NEW t \in Tx
               PROVE  OutcomeOf(t)'
    BY DEF OutcomeInv
  <2>1. OutcomeOf(t)
    BY <1>a DEF OutcomeInv
  <2>2. AllCommitted(t) => AllCommitted(t)'
    BY <1>t, <1>u, <1>f, <1>h DEF AllCommitted
  <2> QED
    BY <2>1, <2>2, <1>u DEF OutcomeOf
<1> QED
  BY <1>1, <1>2, <1>3, <1>4, <1>5, <1>6, <1>7, <1>8 DEF IndInv

(* resolve without error: every member named has been resolved. *)
LEMMA ResolveDoneInd == ASSUME IndInv, ResolveDone PROVE IndInv'
<1>a. TypeOK /\ FreshInv /\ RecordInv /\ DecisionInv /\ NamedInv /\ QueueInv
      /\ OutcomeInv
  BY DEF IndInv
<1>b. RunInv /\ ResolveInv
  BY DEF IndInv
<1>t. /\ log \in [Tx -> Rec] /\ rec \in Rec /\ members \in [Tx -> SUBSET P]
      /\ part \in [Tx -> [P -> PartStates]] /\ outcome \in [Tx -> Outcomes]
      /\ ntx \in Nat /\ \A t \in Tx : t \in Nat
  BY <1>a, Types
<1>u. /\ pc = "resolve" /\ pc' = "delete" /\ todo = {} /\ unresolved = {}
      /\ UNCHANGED <<log, part, sess, live, members, outcome, ntx, crashes, stale,
                     mode, cur, rec, todo, commit, unresolved, queue, failures>>
  BY DEF ResolveDone, durable, group
<1>1. TypeOK'
  BY <1>a, <1>u DEF TypeOK, PCs
<1>2. FreshInv' /\ RecordInv' /\ DecisionInv' /\ NamedInv' /\ OutcomeInv'
  BY <1>a, <1>u, Frame DEF FreshInv
<1>3. RunInv' /\ QueueInv'
  BY <1>a, <1>u DEF RunInv, QueueInv
<1>4. ResolveInv'
  BY <1>b, <1>u DEF ResolveInv
<1> QED
  BY <1>1, <1>2, <1>3, <1>4 DEF IndInv

(* resolve with an error: the record stays, and a commit is in doubt. *)
LEMMA ResolveIncompleteInd == ASSUME IndInv, ResolveIncomplete PROVE IndInv'
<1>a. TypeOK /\ FreshInv /\ RecordInv /\ DecisionInv /\ NamedInv /\ QueueInv
      /\ OutcomeInv
  BY DEF IndInv
<1>b. RunInv /\ ResolveInv
  BY DEF IndInv
<1>t. /\ log \in [Tx -> Rec] /\ rec \in Rec /\ members \in [Tx -> SUBSET P]
      /\ part \in [Tx -> [P -> PartStates]] /\ outcome \in [Tx -> Outcomes]
      /\ ntx \in Nat /\ \A t \in Tx : t \in Nat
  BY <1>a, Types
<1>u. /\ pc = "resolve" /\ pc' = IF mode = "run" THEN "idle" ELSE "scan"
      /\ failures' = IF mode = "recover" THEN failures \cup {cur} ELSE failures
      /\ UNCHANGED <<log, part, sess, live, members, ntx, crashes, stale, mode,
                     cur, rec, todo, commit, unresolved, queue>>
  BY DEF ResolveIncomplete, Leave, durable
<1>f. cur \in Tx /\ (commit => log[cur].state = "committing")
  BY <1>b, <1>u DEF ResolveInv
<1>o. /\ outcome' \in [Tx -> Outcomes]
      /\ \A t \in Tx : t # cur => outcome'[t] = outcome[t]
      /\ \/ outcome'[cur] = outcome[cur] \/ outcome'[cur] = "rolled_back"
         \/ outcome'[cur] = "in_doubt" /\ commit
  BY <1>t, <1>f DEF ResolveIncomplete, Report, Outcomes
<1>1. TypeOK'
  BY <1>a, <1>u, <1>o DEF TypeOK, PCs
<1>2. FreshInv' /\ RecordInv'
  BY <1>a, <1>u DEF FreshInv, RecordInv
<1>3. DecisionInv' /\ NamedInv'
  BY <1>a, <1>u DEF DecisionInv, DecisionOf, NoneCommitted, AllCommitted, NamedInv,
     PreparedIsNamed
<1>4. RunInv' /\ ResolveInv'
  BY <1>u DEF RunInv, ResolveInv
<1>5. QueueInv'
  BY <1>a, <1>u DEF QueueInv
<1>6. OutcomeInv'
  BY <1>a, <1>t, <1>u, <1>f, <1>o DEF OutcomeInv, OutcomeOf, FreshInv, AllCommitted
<1> QED
  BY <1>1, <1>2, <1>3, <1>4, <1>5, <1>6 DEF IndInv

(* Delete: everything the record named is resolved, so nothing loses its name. *)
LEMMA DeleteOKInd == ASSUME IndInv, ~LateSaves, DeleteOK PROVE IndInv'
<1>a. TypeOK /\ FreshInv /\ RecordInv /\ DecisionInv /\ NamedInv /\ QueueInv
      /\ OutcomeInv
  BY DEF IndInv
<1>b. RunInv /\ ResolveInv
  BY DEF IndInv
<1>t. /\ log \in [Tx -> Rec] /\ rec \in Rec /\ members \in [Tx -> SUBSET P]
      /\ part \in [Tx -> [P -> PartStates]] /\ outcome \in [Tx -> Outcomes]
      /\ ntx \in Nat /\ \A t \in Tx : t \in Nat
  BY <1>a, Types
<1>u. /\ pc = "delete" /\ pc' = IF mode = "run" THEN "idle" ELSE "scan"
      /\ UNCHANGED <<part, sess, live, members, ntx, crashes, stale, mode, cur,
                     rec, todo, commit, unresolved, queue>>
      /\ failures' \in {failures, failures \cup {cur}}
  BY DEF DeleteOK, Leave
<1>f. /\ cur \in Tx /\ rec.txids = {}
      /\ rec.order = members[cur] /\ log[cur].state # "absent"
      /\ commit <=> log[cur].state = "committing"
      /\ commit => AllCommitted(cur)
  BY <1>b, <1>u DEF ResolveInv, AllCommitted
<1>n. ~commit => NoneCommitted(cur)
  BY <1>a, <1>f, Undecided
<1>p. ~LatePrepares => \A q \in P : part[cur][q] # "prepared"
  <2>1. \A q \in P : q \notin members[cur] => part[cur][q] = "none"
    BY <1>a, <1>f DEF RecordInv
  <2>2. commit => \A q \in members[cur] : part[cur][q] # "prepared"
    BY <1>f DEF AllCommitted
  <2>3. ~commit /\ ~LatePrepares => \A q \in members[cur] : part[cur][q] # "prepared"
    BY <1>b, <1>u, <1>f DEF ResolveInv
  <2> QED
    BY <2>1, <2>2, <2>3
<1>l. /\ log' \in [Tx -> Rec]
      /\ \A t \in Tx : t # cur => log'[t] = log[t]
      /\ log'[cur] = NoRec
  <2>1. NoRec \in Rec
    BY DEF NoRec, Rec, RecStates
  <2> QED
    BY <2>1, <1>t, <1>f DEF DeleteOK, SaveOK
<1>o. /\ outcome' \in [Tx -> Outcomes]
      /\ \A t \in Tx : t # cur => outcome'[t] = outcome[t]
      /\ outcome'[cur] \in {outcome[cur], "committed", "rolled_back"}
      /\ outcome'[cur] = "committed" => outcome[cur] = "committed" \/ commit
  BY <1>t, <1>f DEF DeleteOK, Report, Outcomes
<1>1. TypeOK'
  <2>1. failures' \subseteq 0..MaxTx
    BY <1>a, <1>u DEF TypeOK
  <2> QED
    BY <1>a, <1>u, <1>l, <1>o, <2>1 DEF TypeOK, PCs
<1>2. FreshInv'
  BY <1>a, <1>t, <1>u, <1>f, <1>l DEF FreshInv
<1>3. RecordInv'
  BY <1>a, <1>u, <1>f, <1>l DEF RecordInv, NoRec
<1>4. DecisionInv'
  <2> SUFFICES ASSUME NEW t \in Tx
               PROVE  DecisionOf(t)'
    BY DEF DecisionInv
  <2>1. DecisionOf(t)
    BY <1>a DEF DecisionInv
  <2>2. CASE t # cur
    BY <2>1, <2>2, <1>u, <1>l DEF DecisionOf, NoneCommitted, AllCommitted
  <2>3. CASE t = cur
    BY <2>1, <2>3, <1>u, <1>f, <1>n, <1>l
       DEF DecisionOf, NoneCommitted, AllCommitted, NoRec
  <2> QED
    BY <2>2, <2>3
<1>5. NamedInv'
  BY <1>a, <1>u, <1>f, <1>l, <1>p DEF NamedInv, PreparedIsNamed
<1>6. RunInv' /\ ResolveInv'
  BY <1>u DEF RunInv, ResolveInv
<1>7. QueueInv'
  BY <1>a, <1>u, <1>f, <1>l DEF QueueInv, TypeOK
<1>8. OutcomeInv'
  <2> SUFFICES ASSUME NEW t \in Tx
               PROVE  OutcomeOf(t)'
    BY DEF OutcomeInv
  <2>1. OutcomeOf(t)
    BY <1>a DEF OutcomeInv
  <2>2. CASE t # cur
    BY <2>1, <2>2, <1>u, <1>l, <1>o DEF OutcomeOf, AllCommitted
  <2>3. CASE t = cur
    BY <2>1, <2>3, <1>a, <1>t, <1>u, <1>f, <1>o DEF OutcomeOf, AllCommitted, FreshInv,
       NoneCommitted
  <2> QED
    BY <2>2, <2>3
<1> QED
  BY <1>1, <1>2, <1>3, <1>4, <1>5, <1>6, <1>7, <1>8 DEF IndInv

(* A record that cannot be deleted stays, and is resolved again. *)
LEMMA DeleteFailInd == ASSUME IndInv, ~LateSaves, DeleteFail PROVE IndInv'
<1>a. TypeOK /\ FreshInv /\ RecordInv /\ DecisionInv /\ NamedInv /\ QueueInv
      /\ OutcomeInv
  BY DEF IndInv
<1>b. RunInv /\ ResolveInv
  BY DEF IndInv
<1>t. /\ log \in [Tx -> Rec] /\ rec \in Rec /\ members \in [Tx -> SUBSET P]
      /\ part \in [Tx -> [P -> PartStates]] /\ outcome \in [Tx -> Outcomes]
      /\ ntx \in Nat /\ \A t \in Tx : t \in Nat
  BY <1>a, Types
<1>u. /\ pc = "delete" /\ pc' = IF mode = "run" THEN "idle" ELSE "scan"
      /\ UNCHANGED <<part, sess, live, members, ntx, crashes, stale, mode, cur,
                     rec, todo, commit, unresolved, queue>>
      /\ failures' \in {failures, failures \cup {cur}}
  BY DEF DeleteFail, Leave
<1>f. /\ cur \in Tx /\ rec.txids = {}
      /\ rec.order = members[cur] /\ log[cur].state # "absent"
      /\ commit <=> log[cur].state = "committing"
      /\ commit => AllCommitted(cur)
  BY <1>b, <1>u DEF ResolveInv, AllCommitted
<1>n. ~commit => NoneCommitted(cur)
  BY <1>a, <1>f, Undecided
<1>p. ~LatePrepares => \A q \in P : part[cur][q] # "prepared"
  <2>1. \A q \in P : q \notin members[cur] => part[cur][q] = "none"
    BY <1>a, <1>f DEF RecordInv
  <2>2. commit => \A q \in members[cur] : part[cur][q] # "prepared"
    BY <1>f DEF AllCommitted
  <2>3. ~commit /\ ~LatePrepares => \A q \in members[cur] : part[cur][q] # "prepared"
    BY <1>b, <1>u, <1>f DEF ResolveInv
  <2> QED
    BY <2>1, <2>2, <2>3
<1>l. /\ log' \in [Tx -> Rec]
      /\ \A t \in Tx : t # cur => log'[t] = log[t]
      /\ log' = log
  BY <1>t DEF DeleteFail, SaveErr
<1>o. /\ outcome' \in [Tx -> Outcomes]
      /\ \A t \in Tx : t # cur => outcome'[t] = outcome[t]
      /\ outcome'[cur] \in {outcome[cur], "rolled_back"}
      /\ outcome'[cur] = "committed" => outcome[cur] = "committed" \/ commit
  BY <1>t, <1>f DEF DeleteFail, Report, Outcomes
<1>1. TypeOK'
  <2>1. failures' \subseteq 0..MaxTx
    BY <1>a, <1>u DEF TypeOK
  <2> QED
    BY <1>a, <1>u, <1>l, <1>o, <2>1 DEF TypeOK, PCs
<1>2. FreshInv'
  BY <1>a, <1>t, <1>u, <1>f, <1>l DEF FreshInv
<1>3. RecordInv'
  BY <1>a, <1>u, <1>f, <1>l DEF RecordInv, NoRec
<1>4. DecisionInv'
  <2> SUFFICES ASSUME NEW t \in Tx
               PROVE  DecisionOf(t)'
    BY DEF DecisionInv
  <2>1. DecisionOf(t)
    BY <1>a DEF DecisionInv
  <2>2. CASE t # cur
    BY <2>1, <2>2, <1>u, <1>l DEF DecisionOf, NoneCommitted, AllCommitted
  <2>3. CASE t = cur
    BY <2>1, <2>3, <1>u, <1>f, <1>n, <1>l
       DEF DecisionOf, NoneCommitted, AllCommitted, NoRec
  <2> QED
    BY <2>2, <2>3
<1>5. NamedInv'
  BY <1>a, <1>u, <1>f, <1>l, <1>p DEF NamedInv, PreparedIsNamed
<1>6. RunInv' /\ ResolveInv'
  BY <1>u DEF RunInv, ResolveInv
<1>7. QueueInv'
  BY <1>a, <1>u, <1>f, <1>l DEF QueueInv, TypeOK
<1>8. OutcomeInv'
  <2> SUFFICES ASSUME NEW t \in Tx
               PROVE  OutcomeOf(t)'
    BY DEF OutcomeInv
  <2>1. OutcomeOf(t)
    BY <1>a DEF OutcomeInv
  <2>2. CASE t # cur
    BY <2>1, <2>2, <1>u, <1>l, <1>o DEF OutcomeOf, AllCommitted
  <2>3. CASE t = cur
    BY <2>1, <2>3, <1>a, <1>t, <1>u, <1>f, <1>o DEF OutcomeOf, AllCommitted, FreshInv,
       NoneCommitted
  <2> QED
    BY <2>2, <2>3
<1> QED
  BY <1>1, <1>2, <1>3, <1>4, <1>5, <1>6, <1>7, <1>8 DEF IndInv

-----------------------------------------------------------------------------
(* Start-up, the reaper and the process. *)

(* A restart queues the records the log holds and changes none of them. *)
LEMMA StartInd == ASSUME IndInv, NEW A \in SUBSET P, Start(A) PROVE IndInv'
<1>a. TypeOK /\ FreshInv /\ RecordInv /\ DecisionInv /\ NamedInv /\ QueueInv
      /\ OutcomeInv
  BY DEF IndInv
<1>b. RunInv /\ ResolveInv
  BY DEF IndInv
<1>t. /\ log \in [Tx -> Rec] /\ rec \in Rec /\ members \in [Tx -> SUBSET P]
      /\ part \in [Tx -> [P -> PartStates]] /\ outcome \in [Tx -> Outcomes]
      /\ ntx \in Nat /\ \A t \in Tx : t \in Nat
  BY <1>a, Types
<1>u. /\ pc = "down" /\ pc' = "scan" /\ mode' = "recover" /\ failures' = {}
      /\ live' = A /\ queue' = Records
      /\ UNCHANGED <<log, part, sess, members, outcome, ntx, crashes, stale, cur, rec,
                     todo, commit, unresolved>>
  BY DEF Start, durable, group, control
<1>x. \A t \in queue' : t \in Tx /\ log[t].state # "absent"
  BY <1>u DEF Records
<1>1. TypeOK'
  BY <1>a, <1>u, <1>x DEF TypeOK, PCs
<1>2. FreshInv' /\ RecordInv' /\ DecisionInv' /\ NamedInv' /\ OutcomeInv'
  BY <1>a, <1>t, <1>u, <1>x, Frame DEF FreshInv
<1>3. RunInv'
  BY <1>u DEF RunInv
<1>4. ResolveInv'
  BY <1>u DEF ResolveInv
<1>5. QueueInv'
  BY <1>u, <1>x DEF QueueInv
<1> QED
  BY <1>1, <1>2, <1>3, <1>4, <1>5 DEF IndInv

(* The reaper queues only records without a commit decision. *)
LEMMA ReapInd == ASSUME IndInv, Reap PROVE IndInv'
<1>a. TypeOK /\ FreshInv /\ RecordInv /\ DecisionInv /\ NamedInv /\ QueueInv
      /\ OutcomeInv
  BY DEF IndInv
<1>b. RunInv /\ ResolveInv
  BY DEF IndInv
<1>t. /\ log \in [Tx -> Rec] /\ rec \in Rec /\ members \in [Tx -> SUBSET P]
      /\ part \in [Tx -> [P -> PartStates]] /\ outcome \in [Tx -> Outcomes]
      /\ ntx \in Nat /\ \A t \in Tx : t \in Nat
  BY <1>a, Types
<1>u. /\ pc = "idle" /\ pc' = "scan" /\ mode' = "reap"
      /\ queue' = {t \in Records : Reapable(t)}
      /\ UNCHANGED <<log, part, sess, live, members, outcome, ntx, crashes, stale, cur,
                     rec, todo, commit, unresolved, failures>>
  BY DEF Reap, durable, group, control
<1>x. \A t \in queue' : /\ t \in Tx /\ log[t].state # "absent"
                        /\ log[t].state # "committing"
  BY <1>u DEF Records, Reapable
<1>1. TypeOK'
  BY <1>a, <1>u, <1>x DEF TypeOK, PCs
<1>2. FreshInv' /\ RecordInv' /\ DecisionInv' /\ NamedInv' /\ OutcomeInv'
  BY <1>a, <1>t, <1>u, <1>x, Frame DEF FreshInv
<1>3. RunInv'
  BY <1>u DEF RunInv
<1>4. ResolveInv'
  BY <1>u DEF ResolveInv
<1>5. QueueInv'
  BY <1>u, <1>x DEF QueueInv
<1> QED
  BY <1>1, <1>2, <1>3, <1>4, <1>5 DEF IndInv

(* The end of a scan changes neither records nor branches. *)
LEMMA ScanDoneInd == ASSUME IndInv, ScanDone PROVE IndInv'
<1>a. TypeOK /\ FreshInv /\ RecordInv /\ DecisionInv /\ NamedInv /\ QueueInv
      /\ OutcomeInv
  BY DEF IndInv
<1>b. RunInv /\ ResolveInv
  BY DEF IndInv
<1>t. /\ log \in [Tx -> Rec] /\ rec \in Rec /\ members \in [Tx -> SUBSET P]
      /\ part \in [Tx -> [P -> PartStates]] /\ outcome \in [Tx -> Outcomes]
      /\ ntx \in Nat /\ \A t \in Tx : t \in Nat
  BY <1>a, Types
<1>u. /\ pc = "scan" /\ queue = {} /\ pc' \in {"down", "idle"}
      /\ UNCHANGED <<log, part, sess, live, members, outcome, ntx, crashes, stale, mode,
                     cur, rec, todo, commit, unresolved, queue, failures>>
  BY DEF ScanDone, durable, group, control
<1>1. TypeOK'
  BY <1>a, <1>u DEF TypeOK, PCs
<1>2. FreshInv' /\ RecordInv' /\ DecisionInv' /\ NamedInv' /\ OutcomeInv'
  BY <1>a, <1>t, <1>u, Frame DEF FreshInv
<1>3. RunInv'
  BY <1>u DEF RunInv
<1>4. ResolveInv'
  BY <1>u DEF ResolveInv
<1>5. QueueInv'
  BY <1>u DEF QueueInv
<1> QED
  BY <1>1, <1>2, <1>3, <1>4, <1>5 DEF IndInv

(* Time passing makes records reapable and changes nothing else. *)
LEMMA AgeInd == ASSUME IndInv, NEW t \in Tx, Age(t) PROVE IndInv'
<1>a. TypeOK /\ FreshInv /\ RecordInv /\ DecisionInv /\ NamedInv /\ QueueInv
      /\ OutcomeInv
  BY DEF IndInv
<1>b. RunInv /\ ResolveInv
  BY DEF IndInv
<1>t. /\ log \in [Tx -> Rec] /\ rec \in Rec /\ members \in [Tx -> SUBSET P]
      /\ part \in [Tx -> [P -> PartStates]] /\ outcome \in [Tx -> Outcomes]
      /\ ntx \in Nat /\ \A s \in Tx : s \in Nat
  BY <1>a, Types
<1>u. /\ stale' = stale \cup {t}
      /\ UNCHANGED <<log, part, sess, live, members, outcome, ntx, crashes, pc, mode,
                     cur, rec, todo, commit, unresolved, queue, failures>>
  BY DEF Age, durable, group, control
<1>1. TypeOK'
  BY <1>a, <1>u DEF TypeOK, PCs
<1>2. FreshInv' /\ RecordInv' /\ DecisionInv' /\ NamedInv' /\ OutcomeInv'
  BY <1>a, <1>t, <1>u, Frame DEF FreshInv
<1>3. RunInv'
  BY <1>b, <1>u DEF RunInv, NoneCommitted
<1>4. ResolveInv'
  BY <1>b, <1>u DEF ResolveInv
<1>5. QueueInv'
  BY <1>a, <1>u DEF QueueInv
<1> QED
  BY <1>1, <1>2, <1>3, <1>4, <1>5 DEF IndInv

(* Recover loads a record and takes the side its state decides. *)
LEMMA VisitInd == ASSUME IndInv, NEW t \in Tx, Visit(t) PROVE IndInv'
<1>a. TypeOK /\ FreshInv /\ RecordInv /\ DecisionInv /\ NamedInv /\ QueueInv
      /\ OutcomeInv
  BY DEF IndInv
<1>b. RunInv /\ ResolveInv
  BY DEF IndInv
<1>t. /\ log \in [Tx -> Rec] /\ rec \in Rec /\ members \in [Tx -> SUBSET P]
      /\ part \in [Tx -> [P -> PartStates]] /\ outcome \in [Tx -> Outcomes]
      /\ ntx \in Nat /\ \A s \in Tx : s \in Nat
  BY <1>a, Types
<1>u. /\ pc = "scan" /\ pc' = "resolve" /\ t \in queue /\ queue' = queue \ {t}
      /\ cur' = t /\ rec' = log[t] /\ todo' = log[t].order \cap log[t].txids
      /\ unresolved' = {}
      /\ commit' = (mode = "recover" /\ log[t].state = "committing")
      /\ UNCHANGED <<log, part, sess, live, members, outcome, ntx, crashes, stale, mode,
                     failures>>
  BY DEF Visit, First, Unresolved, RecoverCommits, durable, group, control
<1>g. /\ log[t].state # "absent" /\ mode # "run"
      /\ mode = "reap" => log[t].state # "committing"
  BY <1>a, <1>u DEF QueueInv
<1>x. /\ t <= ntx /\ rec' \in Rec /\ t \in 0..MaxTx
      /\ todo' \subseteq P /\ queue' \subseteq Tx /\ commit' \in BOOLEAN
  <2>1. t <= ntx
    BY <1>a, <1>t, <1>g DEF FreshInv, NoRec
  <2>2. t \in 0..MaxTx
    BY TwoPCAssumption DEF Tx
  <2>3. log[t].txids \subseteq P /\ rec' \in Rec
    BY <1>t, <1>u DEF Rec
  <2> QED
    BY <2>1, <2>2, <2>3, <1>a, <1>u DEF TypeOK
<1>1. TypeOK'
  BY <1>a, <1>u, <1>x DEF TypeOK, PCs
<1>2. FreshInv' /\ RecordInv' /\ DecisionInv' /\ NamedInv' /\ OutcomeInv'
  BY <1>a, <1>t, <1>u, <1>x, Frame DEF FreshInv
<1>3. RunInv'
  BY <1>u DEF RunInv
<1>4. ResolveInv'
  <2>1. mode = "recover" \/ mode = "reap"
    BY <1>a, <1>g DEF TypeOK
  <2>2. commit' <=> log[t].state = "committing"
    BY <2>1, <1>u, <1>g
  <2>3. log[t].txids \subseteq members[t] /\ log[t].order = members[t]
    BY <1>a, <1>g DEF RecordInv
  <2>4. commit' => \A q \in members[t] \ log[t].txids : part[t][q] = "committed"
    BY <2>2, <1>a DEF DecisionInv, DecisionOf
  <2>5. ~LatePrepares => \A q \in members[t] \ log[t].txids : part[t][q] # "prepared"
    BY <1>a, <1>t DEF NamedInv, PreparedIsNamed
  <2> QED
    BY <2>2, <2>3, <2>4, <2>5, <1>u, <1>g DEF ResolveInv
<1>5. QueueInv'
  BY <1>a, <1>u DEF QueueInv
<1> QED
  BY <1>1, <1>2, <1>3, <1>4, <1>5 DEF IndInv

(* A crash loses the open branches; prepared ones and the log survive. *)
LEMMA CrashInd == ASSUME IndInv, Crash PROVE IndInv'
<1>a. TypeOK /\ FreshInv /\ RecordInv /\ DecisionInv /\ NamedInv /\ QueueInv
      /\ OutcomeInv
  BY DEF IndInv
<1>b. RunInv /\ ResolveInv
  BY DEF IndInv
<1>t. /\ log \in [Tx -> Rec] /\ rec \in Rec /\ members \in [Tx -> SUBSET P]
      /\ part \in [Tx -> [P -> PartStates]] /\ outcome \in [Tx -> Outcomes]
      /\ ntx \in Nat /\ \A t \in Tx : t \in Nat
  BY <1>a, Types
<1>u. /\ pc' = "down" /\ mode' = "run" /\ cur' = 0 /\ rec' = NoRec /\ todo' = {}
      /\ commit' = FALSE /\ unresolved' = {} /\ queue' = {} /\ failures' = {}
      /\ sess' = [p \in P |-> 0] /\ crashes < MaxCrashes /\ crashes' = crashes + 1
      /\ UNCHANGED <<log, live, members, outcome, ntx, stale>>
  BY DEF Crash
<1>h. /\ part' \in [Tx -> [P -> PartStates]]
      /\ \A t \in Tx : \A p \in P :
           part'[t][p] = IF part[t][p] = "open" THEN "rolledback" ELSE part[t][p]
  BY <1>t DEF Crash, PartStates
<1>1. TypeOK'
  <2>1. NoRec \in Rec /\ 0 \in 0..MaxTx /\ crashes' \in 0..MaxCrashes
    BY <1>a, <1>u, TwoPCAssumption DEF NoRec, Rec, RecStates, TypeOK
  <2>2. sess' \in [P -> 0..MaxTx]
    BY <2>1, <1>u
  <2> QED
    BY <1>a, <1>u, <1>h, <2>1, <2>2 DEF TypeOK, PCs
<1>2. FreshInv' /\ RecordInv' /\ NamedInv'
  <2>1. FreshInv'
    BY <1>a, <1>t, <1>u, <1>h DEF FreshInv
  <2>2. RecordInv'
    BY <1>a, <1>t, <1>u, <1>h DEF RecordInv
  <2>3. NamedInv'
    BY <1>a, <1>t, <1>u, <1>h DEF NamedInv, PreparedIsNamed
  <2> QED
    BY <2>1, <2>2, <2>3
<1>3. DecisionInv'
  <2> SUFFICES ASSUME NEW t \in Tx
               PROVE  DecisionOf(t)'
    BY DEF DecisionInv
  <2>1. DecisionOf(t)
    BY <1>a DEF DecisionInv
  <2>2. \A p \in members[t] : /\ part'[t][p] = "committed" <=> part[t][p] = "committed"
                              /\ part[t][p] = "prepared" => part'[t][p] = "prepared"
    BY <1>t, <1>h
  <2>3. (NoneCommitted(t) => NoneCommitted(t)') /\ (AllCommitted(t) => AllCommitted(t)')
    BY <2>2, <1>u DEF NoneCommitted, AllCommitted
  <2>4. log[t].state = "committing" =>
          \A p \in members[t] : \/ part'[t][p] = "committed"
                                \/ part'[t][p] = "prepared" /\ p \in log[t].txids
    BY <2>1, <2>2 DEF DecisionOf
  <2> QED
    BY <2>1, <2>3, <2>4, <1>u DEF DecisionOf
<1>4. RunInv' /\ ResolveInv' /\ QueueInv'
  BY <1>u DEF RunInv, ResolveInv, QueueInv
<1>5. OutcomeInv'
  BY <1>a, <1>t, <1>u, <1>h DEF OutcomeInv, OutcomeOf, AllCommitted
<1> QED
  BY <1>1, <1>2, <1>3, <1>4, <1>5 DEF IndInv

(* A PREPARE that lands late adds a vote to a batch that was abandoned. *)
LEMMA LatePrepareInd ==
  ASSUME IndInv, NEW t \in Tx, NEW p \in P, LatePrepare(t, p) PROVE IndInv'
<1>a. TypeOK /\ FreshInv /\ RecordInv /\ DecisionInv /\ NamedInv /\ QueueInv
      /\ OutcomeInv
  BY DEF IndInv
<1>b. RunInv /\ ResolveInv
  BY DEF IndInv
<1>t. /\ log \in [Tx -> Rec] /\ rec \in Rec /\ members \in [Tx -> SUBSET P]
      /\ part \in [Tx -> [P -> PartStates]] /\ outcome \in [Tx -> Outcomes]
      /\ ntx \in Nat /\ \A s \in Tx : s \in Nat
  BY <1>a, Types
<1>u. /\ part[t][p] = "unsure"
      /\ UNCHANGED <<log, sess, live, members, outcome, ntx, crashes, stale, pc,
                     mode, cur, rec, todo, commit, unresolved, queue, failures>>
  BY DEF LatePrepare, group, control
<1>h. /\ part' \in [Tx -> [P -> PartStates]]
      /\ \A s \in Tx : s # t => part'[s] = part[s]
      /\ \A q \in P : q # p => part'[t][q] = part[t][q]
      /\ part'[t][p] \in {"prepared", "rolledback"}
  BY <1>t DEF LatePrepare, PartStates
<1>l. LatePrepares
  BY <1>a, <1>u DEF NamedInv
<1>s. \A s \in Tx : \A q \in P :
        /\ part'[s][q] = "committed" <=> part[s][q] = "committed"
        /\ part[s][q] = "prepared" => part'[s][q] = "prepared"
        /\ part[s][q] \in {"none", "open"} => part'[s][q] = part[s][q]
  BY <1>u, <1>h
<1>1. TypeOK'
  BY <1>a, <1>u, <1>h DEF TypeOK
<1>2. FreshInv' /\ RecordInv'
  BY <1>a, <1>t, <1>u, <1>s DEF FreshInv, RecordInv
<1>3. DecisionInv' /\ NamedInv'
  <2>1. NamedInv'
    BY <1>l DEF NamedInv
  <2> SUFFICES ASSUME NEW s \in Tx
               PROVE  DecisionOf(s)'
    BY <2>1 DEF DecisionInv
  <2>2. DecisionOf(s)
    BY <1>a DEF DecisionInv
  <2> QED
    BY <2>2, <1>t, <1>u, <1>s DEF DecisionOf, NoneCommitted, AllCommitted
<1>4. RunInv'
  <2>1. CASE pc \notin {"begin", "work", "rollbackOpen", "intent", "name", "prepare",
                        "voted", "decide", "abort"}
    BY <2>1, <1>u DEF RunInv
  <2>2. CASE pc \in {"begin", "work", "rollbackOpen", "intent"}
    <3>1. /\ cur \in Tx /\ mode = "run" /\ log[cur].state # "committing"
          /\ NoneCommitted(cur) /\ todo \subseteq members[cur]
          /\ log[cur].txids = {} /\ \A q \in P : part[cur][q] \in {"none", "open"}
          /\ pc = "intent" => todo = members[cur]
      BY <2>2, <1>b DEF RunInv
    <3>2. NoneCommitted(cur)' /\ \A q \in P : part'[cur][q] \in {"none", "open"}
      BY <3>1, <1>t, <1>u, <1>s DEF NoneCommitted
    <3> QED
      BY <2>2, <3>1, <3>2, <1>u DEF RunInv
  <2>3. CASE pc \in {"name", "prepare", "voted", "decide", "abort"}
    <3>1. /\ cur \in Tx /\ NoneCommitted(cur)
          /\ pc # "abort" => \A q \in members[cur] \ todo : part[cur][q] = "prepared"
      BY <2>3, <1>b DEF RunInv
    <3>2. /\ NoneCommitted(cur)'
          /\ pc # "abort" => \A q \in members[cur] \ todo : part'[cur][q] = "prepared"
      BY <3>1, <1>t, <1>u, <1>s DEF NoneCommitted
    <3> QED
      BY <2>3, <3>2, <1>b, <1>u DEF RunInv
  <2> QED
    BY <2>1, <2>2, <2>3
<1>5. ResolveInv'
  BY <1>b, <1>t, <1>u, <1>s, <1>l DEF ResolveInv
<1>6. QueueInv' /\ OutcomeInv'
  BY <1>a, <1>t, <1>u, <1>s DEF QueueInv, OutcomeInv, OutcomeOf, AllCommitted
<1> QED
  BY <1>1, <1>2, <1>3, <1>4, <1>5, <1>6 DEF IndInv

-----------------------------------------------------------------------------
(* The theorems. *)

(* Every step of a coordinator whose failed log writes did not land keeps  *)
(* the inductive invariant.                                                *)
LEMMA StepInd == ASSUME IndInv, ~LateSaves, [Next]_vars PROVE IndInv'
<1>1. CASE UNCHANGED vars
  <2>1. UNCHANGED <<log, part, sess, live, members, outcome, ntx, crashes, stale,
                    pc, mode, cur, rec, todo, commit, unresolved, queue, failures>>
    BY <1>1 DEF vars, durable, group, control
  <2>2. TypeOK' /\ QueueInv'
    BY <2>1 DEF IndInv, TypeOK, QueueInv
  <2>3. FreshInv' /\ RecordInv' /\ DecisionInv' /\ NamedInv' /\ OutcomeInv'
    BY <2>1, Frame DEF IndInv, FreshInv
  <2>4. RunInv' /\ ResolveInv'
    BY <2>1 DEF IndInv, RunInv, ResolveInv, NoneCommitted
  <2> QED
    BY <2>2, <2>3, <2>4 DEF IndInv
<1>2. CASE \E A \in SUBSET P : Run(A) \/ Start(A)
  BY <1>2, RunInd, StartInd
<1>3. CASE \E p \in P : SoloWrite(p) \/ BeginOK(p) \/ SaveName(p) \/ PrepareOK(p)
  BY <1>3, SoloWriteInd, BeginOKInd, SaveNameInd, PrepareOKInd
<1>4. CASE \E p \in P : \/ PrepareFail(p) \/ CommitPrepared(p) \/ RollbackPrepared(p)
                       \/ ResolveFail(p) \/ Shrink(p)
  BY <1>4, PrepareFailInd, CommitPreparedInd, RollbackPreparedInd, ResolveFailInd,
     ShrinkInd
<1>5. CASE BeginFail \/ Work \/ RollbackOpen \/ SaveIntent \/ SavePrepared
  BY <1>5, BeginFailInd, WorkInd, RollbackOpenInd, SaveIntentInd, SavePreparedInd
<1>6. CASE SaveDecision \/ Abort \/ ResolveIncomplete \/ ResolveDone \/ DeleteOK
  BY <1>6, SaveDecisionInd, AbortInd, ResolveIncompleteInd, ResolveDoneInd, DeleteOKInd
<1>7. CASE DeleteFail \/ Reap \/ ScanDone \/ Crash
  BY <1>7, DeleteFailInd, ReapInd, ScanDoneInd, CrashInd
<1>8. CASE \E t \in Tx : Visit(t) \/ Age(t) \/ \E p \in P : LatePrepare(t, p)
  BY <1>8, VisitInd, AgeInd, LatePrepareInd
<1> QED
  BY <1>1, <1>2, <1>3, <1>4, <1>5, <1>6, <1>7, <1>8 DEF Next

(***************************************************************************)
(* IndInv holds in every reachable state, for any number of members,       *)
(* batches and crashes, when failed log writes did not land.               *)
(***************************************************************************)
THEOREM Inductive == ASSUME ~LateSaves PROVE Spec => []IndInv
<1>1. Init => IndInv
  BY InitInd
<1>2. IndInv /\ [Next]_vars => IndInv'
  BY StepInd
<1> QED
  BY <1>1, <1>2, PTL DEF Spec

(***************************************************************************)
(* A batch is applied by every member or by none: once a member committed, *)
(* every other one has committed or still holds its vote (twopc's package  *)
(* comment).                                                               *)
(***************************************************************************)
THEOREM AtomicityHolds == ASSUME ~LateSaves PROVE Spec => []Atomicity
<1>1. IndInv => Atomicity
  <2> SUFFICES ASSUME IndInv, NEW t \in Tx, NEW p \in members[t], NEW q \in members[t],
                      part[t][p] = "committed"
               PROVE  part[t][q] \in {"prepared", "committed"}
    BY DEF Atomicity
  <2>1. TypeOK /\ DecisionInv
    BY DEF IndInv
  <2>2. ~NoneCommitted(t)
    BY DEF NoneCommitted
  <2>3. log[t].state = "committing" \/ log[t].state = "absent"
    BY <2>1, <2>2, Undecided
  <2> QED
    BY <2>1, <2>2, <2>3 DEF DecisionInv, DecisionOf, AllCommitted
<1> QED
  BY <1>1, Inductive, PTL

(***************************************************************************)
(* A prepared transaction is always named in the log, so recovery or the   *)
(* reaper can resolve it (prepareAll records the name first).              *)
(***************************************************************************)
THEOREM PreparedIsNamedHolds ==
  ASSUME ~LateSaves, ~LatePrepares PROVE Spec => []PreparedIsNamed
<1>1. IndInv => PreparedIsNamed
  BY DEF IndInv, NamedInv
<1> QED
  BY <1>1, Inductive, PTL

(***************************************************************************)
(* A group write recorded as committed reached every member, and one       *)
(* recorded as in doubt is never rolled back anywhere (outcomeOf).         *)
(***************************************************************************)
THEOREM OutcomesHold ==
  ASSUME ~LateSaves PROVE Spec => [](GroupCommitIsComplete /\ InDoubtIsDecided)
<1>1. IndInv => GroupCommitIsComplete /\ InDoubtIsDecided
  <2> SUFFICES ASSUME IndInv PROVE GroupCommitIsComplete /\ InDoubtIsDecided
    OBVIOUS
  <2>1. OutcomeInv /\ DecisionInv
    BY DEF IndInv
  <2>2. GroupCommitIsComplete
    BY <2>1 DEF GroupCommitIsComplete, OutcomeInv, OutcomeOf, AllCommitted
  <2>3. InDoubtIsDecided
    BY <2>1 DEF InDoubtIsDecided, OutcomeInv, OutcomeOf, DecisionInv, DecisionOf,
       AllCommitted
  <2> QED
    BY <2>2, <2>3
<1> QED
  BY <1>1, Inductive, PTL

-----------------------------------------------------------------------------
(* The decision. *)

(* The databases change only for cur, or for a batch nobody prepared: a     *)
(* vote becomes a commit in resolve alone, which follows the log.          *)
LEMMA CommitStep ==
  ASSUME IndInv, Next, NEW t \in Tx, NEW p \in P,
         part[t][p] = "prepared", part'[t][p] = "committed"
  PROVE  log[t].state = "committing"
<1>a. TypeOK /\ FreshInv /\ RunInv /\ ResolveInv
  BY DEF IndInv
<1>t. part \in [Tx -> [P -> PartStates]] /\ ntx \in Nat /\ \A s \in Tx : s \in Nat
  BY <1>a, Types
<1>u. part' # part
  OBVIOUS
<1>1. ASSUME NEW A \in SUBSET P, Run(A) \/ Start(A) PROVE FALSE
  BY <1>u, <1>1 DEF Run, Start, durable
<1>2. ASSUME NEW q \in P, SoloWrite(q) PROVE FALSE
  <2>1. t # ntx + 1
    BY <1>a, <1>t DEF FreshInv
  <2> QED
    BY <2>1, <1>2, <1>t DEF SoloWrite
<1>3. ASSUME NEW q \in P, BeginOK(q) \/ PrepareOK(q) \/ PrepareFail(q) PROVE FALSE
  BY <1>3, <1>t DEF BeginOK, PrepareOK, PrepareFail, SetPart
<1>4. ASSUME NEW q \in P, SaveName(q) \/ Shrink(q) PROVE FALSE
  BY <1>u, <1>4 DEF SaveName, Shrink
<1>5. ASSUME NEW q \in P, CommitPrepared(q) \/ RollbackPrepared(q) \/ ResolveFail(q)
      PROVE  log[t].state = "committing"
  <2>1. pc = "resolve" /\ t = cur /\ commit
    BY <1>5, <1>t DEF CommitPrepared, RollbackPrepared, ResolveFail, SetPart
  <2> QED
    BY <2>1, <1>a DEF ResolveInv
<1>6. ASSUME RollbackOpen PROVE FALSE
  BY <1>6, <1>t DEF RollbackOpen
<1>7. ASSUME BeginFail \/ Work \/ SaveIntent \/ SavePrepared \/ SaveDecision \/ Abort PROVE FALSE
  BY <1>u, <1>7 DEF BeginFail, Work, SaveIntent, SavePrepared, SaveDecision, Abort, durable
<1>8. ASSUME ResolveIncomplete \/ ResolveDone \/ DeleteOK \/ DeleteFail \/ Reap \/ ScanDone
      PROVE FALSE
  BY <1>u, <1>8 DEF ResolveIncomplete, ResolveDone, DeleteOK, DeleteFail, Reap, ScanDone, durable
<1>9. ASSUME Crash PROVE FALSE
  BY <1>9, <1>t DEF Crash
<1>10. ASSUME NEW s \in Tx, Visit(s) \/ Age(s) PROVE FALSE
  BY <1>u, <1>10 DEF Visit, Age, durable
<1>11. ASSUME NEW s \in Tx, NEW q \in P, LatePrepare(s, q) PROVE FALSE
  BY <1>11, <1>t DEF LatePrepare
<1> QED
  BY <1>1, <1>2, <1>3, <1>4, <1>5, <1>6, <1>7, <1>8, <1>9, <1>10, <1>11 DEF Next

(***************************************************************************)
(* No member commits its vote before the commit decision is durable        *)
(* (commitAll saves it, then resolve tells the members).                   *)
(***************************************************************************)
THEOREM DecisionFirstHolds == ASSUME ~LateSaves PROVE Spec => DecisionFirst
<1>1. IndInv /\ [Next]_vars =>
        [\A t \in Tx : \A p \in P :
           part[t][p] = "prepared" /\ part'[t][p] = "committed"
             => log[t].state = "committing"]_vars
  BY CommitStep
<1> QED
  BY <1>1, Inductive, PTL DEF Spec, DecisionFirst

(* A record that says committing is changed by resolve alone, which keeps   *)
(* its decision.                                                           *)
LEMMA DecisionStep ==
  ASSUME IndInv, Next, NEW t \in Tx, log[t].state = "committing"
  PROVE  log'[t].state \in {"committing", "absent"}
<1>a. TypeOK /\ RunInv /\ ResolveInv
  BY DEF IndInv
<1>t. log \in [Tx -> Rec] /\ rec \in Rec
  BY <1>a, Types
<1>1. CASE UNCHANGED log
  BY <1>1
<1>2. ASSUME NEW q \in P, SaveName(q) PROVE UNCHANGED log[t]
  <2>1. t # cur
    BY <1>2, <1>a DEF RunInv, SaveName
  <2> QED
    BY <2>1, <1>2, <1>t DEF SaveName, SaveOK, SaveErr
<1>3. ASSUME SaveIntent \/ SavePrepared \/ SaveDecision \/ Abort PROVE UNCHANGED log[t]
  <2>1. t # cur
    BY <1>3, <1>a DEF RunInv, SaveIntent, SavePrepared, SaveDecision, Abort
  <2> QED
    BY <2>1, <1>3, <1>t DEF SaveIntent, SavePrepared, SaveDecision, Abort, SaveOK, SaveErr
<1>4. ASSUME NEW q \in P, Shrink(q) PROVE log'[t].state = "committing"
  <2>1. t = cur => rec.state = "committing"
    BY <1>4, <1>a DEF ResolveInv, Shrink
  <2> QED
    BY <2>1, <1>4, <1>t DEF Shrink, SaveOK, Rec
<1>5. ASSUME DeleteOK \/ DeleteFail PROVE log'[t].state \in {"committing", "absent"}
  BY <1>5, <1>t DEF DeleteOK, DeleteFail, SaveOK, SaveErr, NoRec
<1>6. ASSUME NEW A \in SUBSET P, Run(A) \/ Start(A) PROVE UNCHANGED log
  BY <1>6 DEF Run, Start, durable
<1>7. ASSUME NEW q \in P, \/ SoloWrite(q) \/ BeginOK(q) \/ PrepareOK(q) \/ PrepareFail(q)
                         \/ CommitPrepared(q) \/ RollbackPrepared(q) \/ ResolveFail(q)
      PROVE  UNCHANGED log
  BY <1>7 DEF SoloWrite, BeginOK, PrepareOK, PrepareFail, CommitPrepared, RollbackPrepared,
     ResolveFail
<1>8. ASSUME BeginFail \/ Work \/ RollbackOpen \/ ResolveIncomplete \/ ResolveDone \/ Reap
             \/ ScanDone \/ Crash
      PROVE  UNCHANGED log
  BY <1>8 DEF BeginFail, Work, RollbackOpen, ResolveIncomplete, ResolveDone, Reap, ScanDone,
     Crash, durable
<1>9. ASSUME NEW s \in Tx, Visit(s) \/ Age(s) \/ \E q \in P : LatePrepare(s, q)
      PROVE  UNCHANGED log
  BY <1>9 DEF Visit, Age, LatePrepare, durable
<1> QED
  BY <1>1, <1>2, <1>3, <1>4, <1>5, <1>6, <1>7, <1>8, <1>9 DEF Next

(***************************************************************************)
(* A durable commit decision is never overwritten by another (commitAll:   *)
(* past its save the transaction commits; recovery and the reaper obey).   *)
(***************************************************************************)
THEOREM DecisionStandsHolds == ASSUME ~LateSaves PROVE Spec => DecisionStands
<1>1. IndInv /\ [Next]_vars =>
        [\A t \in Tx : log[t].state = "committing"
           => log'[t].state \in {"committing", "absent"}]_vars
  BY DecisionStep
<1> QED
  BY <1>1, Inductive, PTL DEF Spec, DecisionStands

-----------------------------------------------------------------------------
(***************************************************************************)
(* The refinement.  Every step of the coordinator is, to the promise of a  *)
(* group, a vote, a commit or a give-up that AtomicBatch allows, or leaves *)
(* both its variables alone.                                               *)
(***************************************************************************)

(* Whoever has not been asked to prepare has not given up either. *)
VoteInv ==
  pc \in {"name", "prepare"} => \A p \in todo : part[cur][p] \in {"none", "open"}

Typed ==
  /\ part \in [Tx -> [P -> PartStates]] /\ members \in [Tx -> SUBSET P]
  /\ ntx \in Nat /\ \A t \in Tx : t \in Nat

-----------------------------------------------------------------------------
(* What a change of the databases is to the promise. *)

LEMMA IsVote ==
  ASSUME Typed, NEW t \in Tx, NEW p \in members[t],
         part' = [part EXCEPT ![t][p] = "prepared"], UNCHANGED members,
         part[t][p] \in {"none", "open", "unsure"}
  PROVE  Promise!Vote(t, p)
  BY DEF Typed, Promise!Vote, Abstraction

LEMMA IsApply ==
  ASSUME Typed, NEW t \in Tx, NEW p \in members[t],
         part' = [part EXCEPT ![t][p] = "committed"], UNCHANGED members,
         part[t][p] = "prepared",
         \A q \in members[t] : part[t][q] \in {"prepared", "committed"}
  PROVE  Promise!Apply(t, p)
  BY DEF Typed, Promise!Apply, Abstraction

LEMMA IsAbandon ==
  ASSUME Typed, NEW G \in [Tx -> SUBSET P], UNCHANGED members,
         part' = [t \in Tx |-> [p \in P |->
                    IF p \in G[t] THEN "rolledback" ELSE part[t][p]]],
         \A t \in Tx : \A p \in G[t] : part[t][p] \in {"none", "open", "unsure", "prepared"},
         \A t \in Tx : G[t] # {} => NoneCommitted(t)
  PROVE  Promise!Abandon(G)
  BY DEF Typed, Promise!Abandon, Abstraction, NoneCommitted

LEMMA IsStutter ==
  ASSUME Typed, UNCHANGED members, part' \in [Tx -> [P -> PartStates]],
         \A t \in Tx : \A p \in P :
           \/ part'[t][p] = part[t][p]
           \/ {part[t][p], part'[t][p]} \subseteq {"none", "open", "unsure"}
  PROVE  UNCHANGED <<members, [t \in Tx |-> [p \in P |-> Abstraction(part[t][p])]]>>
  BY DEF Typed, Abstraction

(* A batch that starts now has left no trace. *)
LEMMA FreshBatch ==
  ASSUME IndInv, ntx < MaxTx
  PROVE  /\ Typed /\ ntx + 1 \in Tx /\ members[ntx + 1] = {}
         /\ \A p \in P : part[ntx + 1][p] = "none"
<1>1. TypeOK /\ FreshInv
  BY DEF IndInv
<1>2. Typed /\ MaxTx \in Nat
  BY <1>1, Types DEF Typed
<1>3. ntx + 1 \in Tx /\ ntx + 1 > ntx
  BY <1>2 DEF Typed, Tx
<1> QED
  BY <1>1, <1>2, <1>3 DEF FreshInv

(* Whoever left the start of the protocol without a vote is a member of a  *)
(* batch of which nobody committed.                                        *)
LEMMA Abandonable ==
  ASSUME IndInv, NEW t \in Tx, NEW p \in P, part[t][p] \in {"open", "unsure"}
  PROVE  p \in members[t] /\ NoneCommitted(t)
<1>a. TypeOK /\ DecisionInv
  BY DEF IndInv
<1>1. p \in members[t]
  BY DEF IndInv, RecordInv
<1>2. log[t].state # "committing"
  BY <1>1 DEF IndInv, DecisionInv, DecisionOf
<1>3. CASE log[t].state = "absent"
  BY <1>1, <1>3 DEF IndInv, DecisionInv, DecisionOf, AllCommitted
<1>4. log[t].state # "absent" => NoneCommitted(t)
  BY <1>a, <1>2, Undecided
<1> QED
  BY <1>1, <1>3, <1>4

-----------------------------------------------------------------------------
(* Each step, as the promise sees it. *)

PromiseStep ==
  [Promise!Next]_<<members, [t \in Tx |-> [p \in P |-> Abstraction(part[t][p])]]>>

LEMMA TypedInd == ASSUME IndInv PROVE Typed
  BY Types DEF IndInv, Typed

LEMMA VoteStep ==
  ASSUME NEW t \in Tx, NEW p \in P, Promise!Vote(t, p) PROVE PromiseStep
  BY DEF PromiseStep, Promise!Next

LEMMA ApplyStep ==
  ASSUME NEW t \in Tx, NEW p \in P, Promise!Apply(t, p) PROVE PromiseStep
  BY DEF PromiseStep, Promise!Next

LEMMA AbandonStep ==
  ASSUME NEW G \in [Tx -> SUBSET P], Promise!Abandon(G) PROVE PromiseStep
  BY DEF PromiseStep, Promise!Next

LEMMA AbandonOne ==
  ASSUME Typed, NEW t \in Tx, NEW p \in P, UNCHANGED members,
         part' = [part EXCEPT ![t][p] = "rolledback"],
         part[t][p] \in {"none", "open", "unsure", "prepared"}, NoneCommitted(t)
  PROVE  PromiseStep
<1> DEFINE G == [s \in Tx |-> IF s = t THEN {p} ELSE {}]
<1>1. G \in [Tx -> SUBSET P]
  OBVIOUS
<1>2. part' = [s \in Tx |-> [q \in P |->
                 IF q \in G[s] THEN "rolledback" ELSE part[s][q]]]
  BY DEF Typed
<1>3. \A s \in Tx : \A q \in G[s] : part[s][q] \in {"none", "open", "unsure", "prepared"}
  OBVIOUS
<1>4. \A s \in Tx : G[s] # {} => NoneCommitted(s)
  OBVIOUS
<1>5. Promise!Abandon(G)
  <2> HIDE DEF G
  <2> QED
    BY <1>1, <1>2, <1>3, <1>4, IsAbandon
<1> QED
  <2> HIDE DEF G
  <2> QED
    BY <1>1, <1>5, AbandonStep

LEMMA RunStep == ASSUME IndInv, NEW A \in SUBSET P, Run(A) PROVE PromiseStep
<1>1. /\ Typed /\ ntx + 1 \in Tx /\ members[ntx + 1] = {}
      /\ \A p \in P : part[ntx + 1][p] = "none"
  BY FreshBatch DEF Run
<1>2. members' = [members EXCEPT ![ntx + 1] = A] /\ part' = part
  BY DEF Run, durable
<1>3. Promise!Begin(ntx + 1, A)
  BY <1>1, <1>2 DEF Promise!Begin, Typed, Abstraction
<1> QED
  BY <1>1, <1>3 DEF PromiseStep, Promise!Next

LEMMA SoloWriteStep == ASSUME IndInv, NEW p \in P, SoloWrite(p) PROVE PromiseStep
<1> DEFINE b == ntx + 1
<1>1. Typed /\ b \in Tx /\ members[b] = {} /\ \A q \in P : part[b][q] = "none"
  BY FreshBatch DEF SoloWrite
<1>2. members' = [members EXCEPT ![b] = {p}]
  BY DEF SoloWrite
<1> HIDE DEF b
<1>3. \E s \in {"committed", "open", "rolledback"} : part' = [part EXCEPT ![b][p] = s]
  BY DEF SoloWrite, b
<1>4. CASE part' = [part EXCEPT ![b][p] = "committed"]
  <2>1. Promise!ApplyAlone(b, p)
    BY <1>1, <1>2, <1>4 DEF Promise!ApplyAlone, Typed, Abstraction
  <2> QED
    BY <1>1, <2>1 DEF PromiseStep, Promise!Next
<1>5. CASE part' = [part EXCEPT ![b][p] = "open"]
  <2>1. Promise!Begin(b, {p})
    BY <1>1, <1>2, <1>5 DEF Promise!Begin, Typed, Abstraction
  <2> QED
    BY <1>1, <2>1 DEF PromiseStep, Promise!Next
<1>6. CASE part' = [part EXCEPT ![b][p] = "rolledback"]
  <2> DEFINE G == [s \in Tx |-> IF s = b THEN {p} ELSE {}]
  <2>1. Promise!Abandon(G) /\ G \in [Tx -> SUBSET P]
    BY <1>1, <1>2, <1>6 DEF Promise!Abandon, Typed, Abstraction
  <2> HIDE DEF G
  <2> QED
    BY <2>1, AbandonStep
<1> QED
  BY <1>3, <1>4, <1>5, <1>6

LEMMA BeginOKStep == ASSUME IndInv, NEW p \in P, BeginOK(p) PROVE PromiseStep
<1>1. Typed
  BY TypedInd
<1>2. cur \in Tx /\ part[cur][p] \in {"none", "open"}
  BY DEF IndInv, RunInv, BeginOK
<1>3. part' = [part EXCEPT ![cur][p] = "open"] /\ members' = members
  BY DEF BeginOK, SetPart, group
<1>4. part' \in [Tx -> [P -> PartStates]]
  BY <1>1, <1>2, <1>3 DEF Typed, PartStates
<1>5. \A t \in Tx : \A q \in P :
        \/ part'[t][q] = part[t][q]
        \/ {part[t][q], part'[t][q]} \subseteq {"none", "open", "unsure"}
  BY <1>1, <1>2, <1>3 DEF Typed
<1> QED
  BY <1>1, <1>3, <1>4, <1>5, IsStutter DEF PromiseStep

LEMMA PrepareOKStep ==
  ASSUME IndInv, VoteInv, NEW p \in P, PrepareOK(p) PROVE PromiseStep
<1>1. Typed
  BY TypedInd
<1>2. pc = "prepare" /\ p \in todo /\ part' = [part EXCEPT ![cur][p] = "prepared"]
      /\ members' = members
  BY DEF PrepareOK, SetPart, group, First
<1>3. cur \in Tx /\ p \in members[cur]
  BY <1>2 DEF IndInv, RunInv
<1>4. part[cur][p] \in {"none", "open"}
  BY <1>2 DEF VoteInv
<1> QED
  BY <1>1, <1>2, <1>3, <1>4, IsVote, VoteStep

LEMMA PrepareFailStep ==
  ASSUME IndInv, VoteInv, NEW p \in P, PrepareFail(p) PROVE PromiseStep
<1>1. Typed
  BY TypedInd
<1>2. pc = "prepare" /\ p \in todo /\ members' = members
  BY DEF PrepareFail, group, First
<1>3. cur \in Tx /\ p \in members[cur] /\ NoneCommitted(cur)
  BY <1>2 DEF IndInv, RunInv
<1>4. part[cur][p] \in {"none", "open"}
  BY <1>2 DEF VoteInv
<1>5. \E s \in {"rolledback", "prepared", "unsure"} : part' = [part EXCEPT ![cur][p] = s]
  BY DEF PrepareFail, SetPart
<1>6. CASE part' = [part EXCEPT ![cur][p] = "rolledback"]
  BY <1>1, <1>2, <1>3, <1>4, <1>6, AbandonOne
<1>7. CASE part' = [part EXCEPT ![cur][p] = "prepared"]
  BY <1>1, <1>2, <1>3, <1>4, <1>7, IsVote, VoteStep
<1>8. CASE part' = [part EXCEPT ![cur][p] = "unsure"]
  <2>1. part' \in [Tx -> [P -> PartStates]]
    BY <1>1, <1>3, <1>8 DEF Typed, PartStates
  <2>2. \A t \in Tx : \A q \in P :
          \/ part'[t][q] = part[t][q]
          \/ {part[t][q], part'[t][q]} \subseteq {"none", "open", "unsure"}
    BY <1>1, <1>3, <1>4, <1>8 DEF Typed
  <2> QED
    BY <1>1, <1>2, <2>1, <2>2, IsStutter DEF PromiseStep
<1> QED
  BY <1>5, <1>6, <1>7, <1>8

LEMMA RollbackOpenStep == ASSUME IndInv, RollbackOpen PROVE PromiseStep
<1>1. Typed /\ todo \subseteq P
  BY TypedInd DEF IndInv, TypeOK
<1>2. /\ cur \in Tx /\ NoneCommitted(cur)
      /\ \A p \in P : part[cur][p] \in {"none", "open"}
  BY DEF IndInv, RunInv, RollbackOpen
<1> DEFINE G == [s \in Tx |-> IF s = cur THEN todo ELSE {}]
<1>3. G \in [Tx -> SUBSET P]
  BY <1>1
<1>4. members' = members
  BY DEF RollbackOpen
<1>5. part' = [s \in Tx |-> [q \in P |->
                 IF q \in G[s] THEN "rolledback" ELSE part[s][q]]]
  BY <1>1, <1>2 DEF RollbackOpen, Typed
<1>6. \A s \in Tx : \A q \in G[s] : part[s][q] \in {"none", "open", "unsure", "prepared"}
  BY <1>1, <1>2
<1>7. \A s \in Tx : G[s] # {} => NoneCommitted(s)
  BY <1>2
<1> HIDE DEF G
<1> QED
  BY <1>1, <1>3, <1>4, <1>5, <1>6, <1>7, IsAbandon, AbandonStep

(* What resolve works on: the log's decision, and the members it names. *)
LEMMA Resolving ==
  ASSUME IndInv, pc = "resolve", NEW p \in todo
  PROVE  /\ cur \in Tx /\ p \in members[cur] /\ p \in P
         /\ commit => \A q \in members[cur] : part[cur][q] \in {"prepared", "committed"}
         /\ ~commit => NoneCommitted(cur)
<1>1. /\ cur \in Tx /\ log[cur].state # "absent" /\ todo \subseteq log[cur].txids
      /\ commit <=> log[cur].state = "committing"
  BY DEF IndInv, ResolveInv
<1>2. p \in members[cur]
  BY <1>1 DEF IndInv, RecordInv
<1>3. p \in P
  BY DEF IndInv, TypeOK
<1>4. commit => \A q \in members[cur] : part[cur][q] \in {"prepared", "committed"}
  BY <1>1 DEF IndInv, DecisionInv, DecisionOf
<1>5. ~commit => NoneCommitted(cur)
  BY <1>1, Undecided DEF IndInv
<1> QED
  BY <1>1, <1>2, <1>3, <1>4, <1>5

LEMMA ResolveStep ==
  ASSUME IndInv, NEW p \in P,
         CommitPrepared(p) \/ RollbackPrepared(p) \/ ResolveFail(p)
  PROVE  PromiseStep
<1>1. Typed
  BY TypedInd
<1>2. pc = "resolve" /\ p \in todo /\ members' = members
  BY DEF CommitPrepared, RollbackPrepared, ResolveFail, First, group
<1>3. /\ cur \in Tx /\ p \in members[cur]
      /\ commit => \A q \in members[cur] : part[cur][q] \in {"prepared", "committed"}
      /\ ~commit => NoneCommitted(cur)
  BY <1>2, Resolving
<1>4. \/ part' = part
      \/ /\ part[cur][p] = "prepared" /\ commit
         /\ part' = [part EXCEPT ![cur][p] = "committed"]
      \/ /\ part[cur][p] = "prepared" /\ ~commit
         /\ part' = [part EXCEPT ![cur][p] = "rolledback"]
  BY DEF CommitPrepared, RollbackPrepared, ResolveFail, SetPart
<1>5. CASE part' = part
  BY <1>2, <1>5 DEF PromiseStep
<1>6. CASE /\ part[cur][p] = "prepared" /\ commit
           /\ part' = [part EXCEPT ![cur][p] = "committed"]
  BY <1>1, <1>2, <1>3, <1>6, IsApply, ApplyStep
<1>7. CASE /\ part[cur][p] = "prepared" /\ ~commit
           /\ part' = [part EXCEPT ![cur][p] = "rolledback"]
  BY <1>1, <1>2, <1>3, <1>7, AbandonOne
<1> QED
  BY <1>4, <1>5, <1>6, <1>7

LEMMA CrashStep == ASSUME IndInv, Crash PROVE PromiseStep
<1>1. Typed
  BY TypedInd
<1> DEFINE G == [s \in Tx |-> {q \in P : part[s][q] = "open"}]
<1>2. G \in [Tx -> SUBSET P]
  OBVIOUS
<1>3. members' = members
  BY DEF Crash
<1>4. part' = [s \in Tx |-> [q \in P |->
                 IF q \in G[s] THEN "rolledback" ELSE part[s][q]]]
  BY DEF Crash
<1>5. \A s \in Tx : \A q \in G[s] : part[s][q] \in {"none", "open", "unsure", "prepared"}
  OBVIOUS
<1>6. \A s \in Tx : G[s] # {} => NoneCommitted(s)
  BY Abandonable
<1> HIDE DEF G
<1> QED
  BY <1>1, <1>2, <1>3, <1>4, <1>5, <1>6, IsAbandon, AbandonStep

LEMMA LatePrepareStep ==
  ASSUME IndInv, NEW t \in Tx, NEW p \in P, LatePrepare(t, p) PROVE PromiseStep
<1>1. Typed
  BY TypedInd
<1>2. part[t][p] = "unsure" /\ members' = members
  BY DEF LatePrepare, group
<1>3. p \in members[t] /\ NoneCommitted(t)
  BY <1>2, Abandonable
<1>4. CASE part' = [part EXCEPT ![t][p] = "prepared"]
  BY <1>1, <1>2, <1>3, <1>4, IsVote, VoteStep
<1>5. CASE part' = [part EXCEPT ![t][p] = "rolledback"]
  BY <1>1, <1>2, <1>3, <1>5, AbandonOne
<1> QED
  BY <1>4, <1>5 DEF LatePrepare

(* The other steps touch the log and the coordinator only. *)
LEMMA QuietStep == ASSUME UNCHANGED <<part, members>> PROVE PromiseStep
  BY DEF PromiseStep

LEMMA EveryStep == ASSUME IndInv, VoteInv, [Next]_vars PROVE PromiseStep
<1>1. CASE UNCHANGED vars
  BY <1>1, QuietStep DEF vars, durable, group
<1>2. CASE \E A \in SUBSET P : Run(A) \/ Start(A)
  BY <1>2, RunStep, QuietStep DEF Start, durable
<1>3. CASE \E p \in P : SoloWrite(p) \/ BeginOK(p) \/ PrepareOK(p) \/ PrepareFail(p)
  BY <1>3, SoloWriteStep, BeginOKStep, PrepareOKStep, PrepareFailStep
<1>4. CASE \E p \in P : SaveName(p) \/ Shrink(p)
  BY <1>4, QuietStep DEF SaveName, Shrink, group
<1>5. CASE \E p \in P : CommitPrepared(p) \/ RollbackPrepared(p) \/ ResolveFail(p)
  BY <1>5, ResolveStep
<1>6. CASE RollbackOpen \/ Crash
  BY <1>6, RollbackOpenStep, CrashStep
<1>7. CASE \/ BeginFail \/ Work \/ SaveIntent \/ SavePrepared \/ SaveDecision
           \/ Abort \/ ResolveIncomplete \/ ResolveDone
  BY <1>7, QuietStep DEF BeginFail, Work, SaveIntent, SavePrepared, SaveDecision,
     Abort, ResolveIncomplete, ResolveDone, durable, group
<1>8. CASE DeleteOK \/ DeleteFail \/ Reap \/ ScanDone
  BY <1>8, QuietStep DEF DeleteOK, DeleteFail, Reap, ScanDone, durable, group
<1>9. CASE \E t \in Tx : Visit(t) \/ Age(t) \/ \E p \in P : LatePrepare(t, p)
  BY <1>9, LatePrepareStep, QuietStep DEF Visit, Age, durable, group
<1> QED
  BY <1>1, <1>2, <1>3, <1>4, <1>5, <1>6, <1>7, <1>8, <1>9 DEF Next

-----------------------------------------------------------------------------
(* Who has still to vote. *)

LEMMA VoteInd ==
  ASSUME IndInv, VoteInv, [Next]_vars, pc' \in {"name", "prepare"}
  PROVE  \A p \in todo' : part'[cur'][p] \in {"none", "open"}
<1>t. Typed /\ todo \subseteq P
  BY TypedInd DEF IndInv, TypeOK
<1>1. CASE UNCHANGED <<part, pc, cur, todo>>
  BY <1>1 DEF VoteInv
<1>2. CASE SaveIntent
  <2>1. /\ pc = "intent" /\ UNCHANGED <<part, cur, todo>>
    BY <1>2 DEF SaveIntent
  <2> QED
    BY <2>1, <1>t DEF IndInv, RunInv
<1>3. CASE \E p \in P : SaveName(p)
  <2>1. pc = "name" /\ UNCHANGED <<part, cur, todo>>
    BY <1>3 DEF SaveName
  <2> QED
    BY <2>1 DEF VoteInv
<1>4. CASE \E p \in P : PrepareOK(p)
  <2>1. PICK p \in P : PrepareOK(p)
    BY <1>4
  <2>2. /\ pc = "prepare" /\ todo' = todo \ {p} /\ cur' = cur
        /\ part' = [part EXCEPT ![cur][p] = "prepared"]
    BY <2>1 DEF PrepareOK, SetPart
  <2>3. cur \in Tx
    BY <2>2 DEF IndInv, RunInv
  <2> QED
    BY <2>2, <2>3, <1>t DEF VoteInv, Typed
<1>5. CASE \E t \in Tx : \E p \in P : LatePrepare(t, p)
  <2>1. PICK t \in Tx, p \in P : LatePrepare(t, p)
    BY <1>5
  <2>2. part[t][p] = "unsure" /\ UNCHANGED <<pc, cur, todo>>
        /\ \E s \in {"prepared", "rolledback"} : part' = [part EXCEPT ![t][p] = s]
    BY <2>1 DEF LatePrepare, control
  <2>3. cur \in Tx
    BY <2>2 DEF IndInv, RunInv
  <2> QED
    BY <2>2, <2>3, <1>t DEF VoteInv, Typed
<1>6. CASE \E A \in SUBSET P : Run(A) \/ Start(A)
  BY <1>6 DEF Run, Start
<1>7. CASE \E p \in P : SoloWrite(p)
  <2>1. pc = "idle" /\ pc' = pc
    BY <1>7 DEF SoloWrite, control
  <2> QED
    BY <2>1
<1>8. CASE \E p \in P : \/ BeginOK(p) \/ PrepareFail(p) \/ CommitPrepared(p)
                       \/ RollbackPrepared(p) \/ ResolveFail(p) \/ Shrink(p)
  BY <1>8 DEF BeginOK, PrepareFail, CommitPrepared, RollbackPrepared, ResolveFail, Shrink
<1>9. CASE BeginFail \/ Work \/ RollbackOpen \/ SavePrepared \/ SaveDecision \/ Abort
  BY <1>9 DEF BeginFail, Work, RollbackOpen, SavePrepared, SaveDecision, Abort
<1>10. CASE \/ ResolveIncomplete \/ ResolveDone \/ DeleteOK \/ DeleteFail
            \/ Reap \/ ScanDone \/ Crash
  BY <1>10 DEF ResolveIncomplete, ResolveDone, DeleteOK, DeleteFail, Reap, ScanDone,
     Crash, Leave
<1>11. CASE \E t \in Tx : Visit(t) \/ Age(t)
  BY <1>1, <1>11 DEF Visit, Age, durable, control
<1>12. CASE UNCHANGED vars
  BY <1>1, <1>12 DEF vars, durable, control
<1> QED
  BY <1>2, <1>3, <1>4, <1>5, <1>6, <1>7, <1>8, <1>9, <1>10, <1>11, <1>12 DEF Next

(***************************************************************************)
(* The coordinator, its log and its sinks implement the promise of a       *)
(* group, AtomicBatch, through any crashes, retries and late PREPAREs, for *)
(* any number of members and batches, when a log write that reports an     *)
(* error has not landed.                                                   *)
(***************************************************************************)
THEOREM ImplementsPromiseHolds == ASSUME ~LateSaves PROVE Spec => ImplementsPromise
<1>1. Init => Promise!Init
  BY DEF Init, Promise!Init, Abstraction
<1>2. Init => VoteInv
  BY DEF Init, VoteInv
<1>3. IndInv /\ VoteInv /\ [Next]_vars => VoteInv'
  BY VoteInd DEF VoteInv
<1>4. IndInv /\ VoteInv /\ [Next]_vars
        => [Promise!Next]_<<members, [t \in Tx |-> [p \in P |-> Abstraction(part[t][p])]]>>
  BY EveryStep DEF PromiseStep
<1>5. Spec => []IndInv
  BY Inductive
<1> QED
  BY <1>1, <1>2, <1>3, <1>4, <1>5, PTL DEF Spec, ImplementsPromise, Promise!Spec
=============================================================================
