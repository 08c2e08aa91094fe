--------------------------- MODULE FirstBootProofs ---------------------------
(***************************************************************************)
(* First boot proved for any bundles and any number of attempts: the files *)
(* never claim more than has happened, no transaction id is used twice,    *)
(* and a root an ordinary run was admitted to is never touched again.      *)
(*                                                                         *)
(* The properties speak of the files, the argument needs the process that  *)
(* writes them: BootInv says for each phase of the marker what the root,   *)
(* the receipts and a replacement in the making can be, and for a running  *)
(* command which of these it has brought about so far.                     *)
(***************************************************************************)
EXTENDS FirstBoot, FiniteSetTheorems, WellFoundedInduction, TLAPS

\* The quarantined root of the marker's own transaction, if any.
OwnQuarantine == {q \in quarantine : marker # None /\ q.gen = marker.gen}

\* What the retained attempts look like.
HistoryOK ==
    /\ IsFiniteSet(quarantine)
    /\ \A q \in quarantine : q.root.seal = None /\ q.gen \in 1..MaxAttempts
    /\ \A p, q \in quarantine : p.gen = q.gen => p = q
    /\ \A m \in Authorities, q \in quarantine : q.gen < m.gen \/ q \in OwnQuarantine
    /\ \A m \in Authorities : m.gen \in 1..MaxAttempts

\* A root is moved away only between two commands, and only unsealed.
OwnQuarantineOK ==
    \A q \in OwnQuarantine :
        /\ task = None /\ temp = None /\ root = None /\ q.marker = None
        /\ q.bundle = marker.bundle /\ q.root.id = marker.root
        /\ marker.phase \in {"RootPublished", "JournalDurable"}
        /\ q.root.journal <=> marker.phase = "JournalDurable"

\* The root as the phase of the marker has it.
RootOK ==
    /\ marker = None => root = None /\ (temp \notin {None, Torn} => temp.phase = "Prepared")
    /\ marker # None /\ OwnQuarantine = {} =>
        /\ marker.phase = "Prepared" => root = None \/ (~root.journal /\ root.seal = None)
        /\ marker.phase # "Prepared" => root # None /\ root.id = marker.root
        /\ marker.phase = "RootPublished" => root.seal = None
        /\ marker.phase = "JournalDurable" => root.journal /\ root.seal \in {None, marker.bundle}
        /\ marker.phase \in {"SealCommitted", "Adopted"} =>
              root.journal /\ root.seal = marker.bundle

ReceiptsOK ==
    /\ marker = None \/ marker.phase \notin {"SealCommitted", "Adopted"} =>
          receipt = None /\ receiptTemp = None
    /\ marker # None /\ marker.phase = "SealCommitted" =>
          /\ receipt \in {None, ReceiptOf(marker)}
          /\ receiptTemp \in {None, Torn, ReceiptOf(marker)}
          /\ receipt # None => receiptTemp = None
    /\ marker # None /\ marker.phase = "Adopted" =>
          receipt = ReceiptOf(marker) /\ receiptTemp = None /\ temp = None /\ task = None

\* The effect of the phase after the marker's has happened.
EffectDone ==
    /\ root # None
    /\ marker.phase # "Prepared" => root.journal
    /\ marker.phase \in {"JournalDurable", "SealCommitted"} => root.seal = marker.bundle
    /\ marker.phase = "SealCommitted" => receipt = ReceiptOf(marker) /\ receiptTemp = None
    /\ marker.phase # "Adopted"

\* A replacement that is written completely is the successor of the marker.
TempOK ==
    marker # None /\ temp \notin {None, Torn} =>
        EffectDone /\ temp = Successor(marker, root.id)

\* Where the running command is.
TaskOK ==
    /\ At("publish") => marker = None /\ temp \notin {None, Torn}
    /\ ~At("publish") /\ task # None => marker # None /\ marker.phase # "Adopted"
    /\ At("effect") =>
        /\ marker.phase = "Prepared" => root = None
        /\ marker.phase = "RootPublished" => ~root.journal
        /\ marker.phase = "JournalDurable" => root.seal = None
        /\ marker.phase = "SealCommitted" => receipt = None /\ receiptTemp = None
        /\ marker.phase # "SealCommitted" => task.bundle = marker.bundle
        /\ temp = None
    /\ At("temp") => EffectDone /\ temp = None /\ (marker.phase # "SealCommitted" => task.bundle = marker.bundle)
    /\ At("rename") => temp \notin {None, Torn} /\ (marker.phase \notin {"SealCommitted"} => task.bundle = marker.bundle)
    /\ At("receipt") => /\ marker.phase = "SealCommitted" /\ receipt = None
                        /\ receiptTemp = ReceiptOf(marker) /\ temp = None
    /\ At("publish") => task.bundle = temp.bundle

BootInv == TypeOK /\ HistoryOK /\ OwnQuarantineOK /\ RootOK /\ ReceiptsOK /\ TempOK /\ TaskOK

------------------------------------------------------------------------------
(* Reading the files *)

\* A phase that was read is the phase of a file that is there.
LEMMA PhaseOf ==
    ASSUME NEW m \in Marker \cup {None, Torn}, NEW p \in Phases
    PROVE  Phase(m) = p <=> m \in Marker /\ m.phase = p
  BY BootAssumption DEF Phase

\* A class that was found is one whose predicate holds, and its command runs
\* with no other beside it.
LEMMA ClassHolds ==
    ASSUME NEW c \in DOMAIN Predicates, Classified(c)
    PROVE  task = None /\ Legible /\ Predicates[c]
  BY DEF Classified, Matches

LEMMA UnpublishedMarkerTempClass ==
    ASSUME TypeOK, Classified("UnpublishedMarkerTemp")
    PROVE  task = None /\ marker = None
  BY ClassHolds DEF Predicates

LEMMA QuarantineClasses ==
    ASSUME TypeOK, Classified("RootWithoutJournal") \/ Classified("JournalWithoutSeal")
    PROVE  /\ task = None /\ temp = None /\ marker \in Marker
           /\ root \in Root /\ root.seal = None
           /\ \/ marker.phase = "RootPublished" /\ ~root.journal
              \/ marker.phase = "JournalDurable" /\ root.journal
  <1>1. CASE Classified("RootWithoutJournal")
    <2>1. task = None /\ Settled("RootPublished") /\ Bare
      BY <1>1, ClassHolds DEF Predicates
    <2> QED  BY <2>1, PhaseOf DEF Settled, Bare, HasRoot, HasJournal, HasSeal, TypeOK, Phases
  <1>2. CASE Classified("JournalWithoutSeal")
    <2>1. task = None /\ Settled("JournalDurable") /\ Unsealed
      BY <1>2, ClassHolds DEF Predicates
    <2> QED  BY <2>1, PhaseOf DEF Settled, Unsealed, HasRoot, HasJournal, HasSeal, TypeOK, Phases
  <1> QED  BY <1>1, <1>2

LEMMA QuarantinedClass ==
    ASSUME TypeOK, Classified("QuarantinedIncompleteRoot")
    PROVE  task = None /\ temp = None /\ root = None /\ NoReceipts /\ marker \in Marker
  <1>1. /\ task = None /\ temp = None /\ ~HasRoot /\ NoReceipts
        /\ Phase(marker) = "RootPublished" \/ Phase(marker) = "JournalDurable"
    BY ClassHolds DEF Predicates
  <1> QED  BY <1>1, PhaseOf DEF HasRoot, TypeOK, Phases

LEMMA PreparedWithoutRootClass ==
    ASSUME TypeOK, Classified("PreparedWithoutRoot")
    PROVE  task = None /\ temp = None /\ marker \in Marker /\ marker.phase = "Prepared" /\ root = None
  <1>1. task = None /\ Settled("Prepared") /\ ~HasRoot
    BY ClassHolds DEF Predicates
  <1> QED  BY <1>1, PhaseOf DEF Settled, HasRoot, TypeOK, Phases

\* A replacement waits to be renamed, and its effect is there.
LEMMA CompletionClass ==
    ASSUME TypeOK, NEW c \in CompletionClasses, Classified(c)
    PROVE  /\ task = None /\ NoReceipts /\ marker \in Marker /\ temp \in Marker
           /\ \/ marker.phase = "Prepared" /\ Bare
              \/ marker.phase = "RootPublished" /\ Unsealed
              \/ marker.phase = "JournalDurable"
  <1>1. /\ task = None /\ NoReceipts
        /\ \/ Pending("Prepared") /\ Bare
           \/ Pending("RootPublished") /\ Unsealed
           \/ Pending("JournalDurable")
    BY ClassHolds DEF Predicates, CompletionClasses
  <1> QED  BY <1>1, PhaseOf DEF Pending, TempIsSuccessor, TypeOK, Phases

\* The four classes that are left once the seal is committed.
LEMMA AdoptionClasses ==
    ASSUME TypeOK
    PROVE  /\ Classified("CommittedRootReceiptTemp") =>
                /\ task = None /\ temp = None /\ marker \in Marker
                /\ marker.phase = "SealCommitted" /\ receipt = None
           /\ Classified("CommittedRootResponseLost") =>
                /\ task = None /\ temp = None /\ marker \in Marker
                /\ marker.phase = "SealCommitted" /\ NoReceipts
           /\ Classified("ReceiptCommittedMarkerUpdatePending") =>
                /\ task = None /\ temp = None /\ marker \in Marker
                /\ marker.phase = "SealCommitted" /\ receipt # None /\ receiptTemp = None
           /\ Classified("SealCommittedToAdoptedMarkerTempPending") =>
                /\ task = None /\ marker \in Marker /\ temp \in Marker
                /\ marker.phase = "SealCommitted" /\ receipt # None /\ receiptTemp = None
  <1>1. Classified("CommittedRootReceiptTemp") =>
          task = None /\ Settled("SealCommitted") /\ receipt = None
    BY ClassHolds DEF Predicates
  <1>2. Classified("CommittedRootResponseLost") =>
          task = None /\ Settled("SealCommitted") /\ NoReceipts
    BY ClassHolds DEF Predicates
  <1>3. Classified("ReceiptCommittedMarkerUpdatePending") =>
          task = None /\ Settled("SealCommitted") /\ receipt # None /\ receiptTemp = None
    BY ClassHolds DEF Predicates
  <1>4. Classified("SealCommittedToAdoptedMarkerTempPending") =>
          task = None /\ Pending("SealCommitted") /\ receipt # None /\ receiptTemp = None
    BY ClassHolds DEF Predicates
  <1> QED
    BY <1>1, <1>2, <1>3, <1>4, PhaseOf DEF Settled, Pending, TempIsSuccessor, TypeOK, Phases

------------------------------------------------------------------------------
(* The steps of a running command *)

\* While a command runs nothing of its transaction is quarantined.
LEMMA RunningHasNoQuarantine ==
    ASSUME BootInv, task # None
    PROVE  OwnQuarantine = {}
  BY DEF BootInv, OwnQuarantineOK

Steps == {"publish", "effect", "temp", "rename", "receipt"}

LEMMA GoTo ==
    ASSUME TypeOK, task # None, NEW step \in Steps, Go(step)
    PROVE  task' \in Task /\ task' # None /\ task'.at = step /\ task'.bundle = task.bundle
  BY BootAssumption DEF TypeOK, Go, Task, Steps

LEMMA StartAt ==
    ASSUME NEW step \in Steps, NEW b \in Bundles \cup {None}, Start(step, b)
    PROVE  task' \in Task /\ task' # None /\ task'.at = step /\ task'.bundle = b
  BY BootAssumption DEF Start, Task, Steps

LEMMA MakeRootStep ==
    ASSUME BootInv, MakeRoot
    PROVE  BootInv'
  <1>1. /\ marker \in Marker /\ marker.phase = "Prepared" /\ root = None /\ temp = None
        /\ task \in Task /\ task.at = "effect" /\ task.bundle = marker.bundle
        /\ root' = [id |-> 1 + Cardinality(quarantine), journal |-> FALSE, seal |-> None]
        /\ UNCHANGED <<marker, temp, receipt, receiptTemp, quarantine, bundle, aged, ran>>
        /\ OwnQuarantine = {} /\ OwnQuarantine' = {}
    BY PhaseOf, RunningHasNoQuarantine
       DEF BootInv, TypeOK, MakeRoot, At, authority, Outside, OwnQuarantine, TaskOK, Phases
  <1>2. task' \in Task /\ task' # None /\ task'.at = "temp" /\ task'.bundle = marker.bundle
    BY <1>1, GoTo DEF BootInv, MakeRoot, At, Steps
  <1>3. TypeOK' /\ root' # None
    <2>1. Cardinality(quarantine) \in Nat
      BY FS_CardinalityType DEF BootInv, HistoryOK
    <2>2. root' \in Root
      BY <1>1, <2>1 DEF Root
    <2> QED  BY <1>1, <1>2, <2>2, BootAssumption DEF BootInv, TypeOK
  <1>4. HistoryOK' /\ OwnQuarantineOK'
    BY <1>1 DEF BootInv, HistoryOK, OwnQuarantineOK, Authorities
  <1>5. RootOK' /\ ReceiptsOK' /\ TempOK'
    BY <1>1, <1>3, BootAssumption DEF BootInv, RootOK, ReceiptsOK, TempOK, Root
  <1>6. TaskOK'
    BY <1>1, <1>2, <1>3, BootAssumption DEF TaskOK, At, EffectDone
  <1> QED  BY <1>3, <1>4, <1>5, <1>6 DEF BootInv

LEMMA CreateJournalStep ==
    ASSUME BootInv, CreateJournal
    PROVE  BootInv'
  <1>1. /\ marker \in Marker /\ marker.phase = "RootPublished" /\ temp = None
        /\ root \in Root /\ root.id = marker.root /\ root.seal = None
        /\ task \in Task /\ task.at = "effect" /\ task.bundle = marker.bundle
        /\ root' = [root EXCEPT !.journal = TRUE]
        /\ UNCHANGED <<marker, temp, receipt, receiptTemp, quarantine, bundle, aged, ran>>
        /\ OwnQuarantine = {} /\ OwnQuarantine' = {}
    BY PhaseOf, RunningHasNoQuarantine
       DEF BootInv, TypeOK, CreateJournal, At, authority, Outside, OwnQuarantine, TaskOK, Phases,
           Bare, HasRoot, HasSeal
  <1>2. task' \in Task /\ task' # None /\ task'.at = "temp" /\ task'.bundle = marker.bundle
    BY <1>1, GoTo DEF BootInv, CreateJournal, At, Steps
  <1>3. root' \in Root /\ root'.id = root.id /\ root'.journal /\ root'.seal = None
    BY <1>1 DEF Root
  <1>4. TypeOK' /\ root' # None
    BY <1>1, <1>2, <1>3, BootAssumption DEF BootInv, TypeOK
  <1>5. HistoryOK' /\ OwnQuarantineOK'
    BY <1>1 DEF BootInv, HistoryOK, OwnQuarantineOK, Authorities
  <1>6. RootOK' /\ ReceiptsOK' /\ TempOK'
    BY <1>1, <1>3, <1>4, BootAssumption DEF BootInv, RootOK, ReceiptsOK, TempOK
  <1>7. TaskOK'
    BY <1>1, <1>2, <1>3, <1>4, BootAssumption DEF TaskOK, At, EffectDone
  <1> QED  BY <1>4, <1>5, <1>6, <1>7 DEF BootInv

LEMMA CommitInitialSealStep ==
    ASSUME BootInv, CommitInitialSeal
    PROVE  BootInv'
  <1>1. /\ marker \in Marker /\ marker.phase = "JournalDurable" /\ temp = None
        /\ root \in Root /\ root.id = marker.root /\ root.journal
        /\ task \in Task /\ task.at = "effect" /\ task.bundle = marker.bundle
        /\ root' = [root EXCEPT !.seal = task.bundle]
        /\ UNCHANGED <<marker, temp, receipt, receiptTemp, quarantine, bundle, aged, ran>>
        /\ OwnQuarantine = {} /\ OwnQuarantine' = {}
    BY PhaseOf, RunningHasNoQuarantine
       DEF BootInv, TypeOK, CommitInitialSeal, At, authority, Outside, OwnQuarantine, TaskOK, Phases,
           Unsealed, HasRoot, HasJournal
  <1>2. task' \in Task /\ task' # None /\ task'.at = "temp" /\ task'.bundle = marker.bundle
    BY <1>1, GoTo DEF BootInv, CommitInitialSeal, At, Steps
  <1>3. /\ root' \in Root /\ root'.id = root.id /\ root'.journal
        /\ root'.seal = marker.bundle
    BY <1>1 DEF Root, Marker
  <1>4. TypeOK' /\ root' # None
    BY <1>1, <1>2, <1>3, BootAssumption DEF BootInv, TypeOK
  <1>5. HistoryOK' /\ OwnQuarantineOK'
    BY <1>1 DEF BootInv, HistoryOK, OwnQuarantineOK, Authorities
  <1>6. RootOK' /\ ReceiptsOK' /\ TempOK'
    BY <1>1, <1>3, <1>4, BootAssumption DEF BootInv, RootOK, ReceiptsOK, TempOK
  <1>7. TaskOK'
    BY <1>1, <1>2, <1>3, <1>4, BootAssumption DEF TaskOK, At, EffectDone
  <1> QED  BY <1>4, <1>5, <1>6, <1>7 DEF BootInv

LEMMA ReceiptOfType ==
    ASSUME NEW m \in Marker
    PROVE  ReceiptOf(m) \in Receipt /\ ReceiptOf(m) # None /\ ReceiptOf(m) # Torn
  <1>1. ReceiptOf(m) \in Receipt
    BY DEF ReceiptOf, Receipt, Marker
  <1> QED  BY <1>1, BootAssumption

LEMMA WriteReceiptTempStep ==
    ASSUME BootInv, NEW written \in BOOLEAN, WriteReceiptTemp(written)
    PROVE  BootInv'
  <1>1. /\ marker \in Marker /\ marker.phase = "SealCommitted" /\ temp = None
        /\ task \in Task /\ task.at = "effect" /\ receipt = None
        /\ receiptTemp' = IF written THEN ReceiptOf(marker) ELSE Torn
        /\ UNCHANGED <<marker, temp, receipt, root, quarantine, bundle, aged, ran>>
        /\ OwnQuarantine = {} /\ OwnQuarantine' = {}
    BY PhaseOf, RunningHasNoQuarantine
       DEF BootInv, TypeOK, WriteReceiptTemp, At, Outside, OwnQuarantine, TaskOK, Phases
  <1>2. \/ written /\ task' \in Task /\ task' # None /\ task'.at = "receipt"
        \/ ~written /\ task' = None
    BY <1>1, GoTo DEF BootInv, WriteReceiptTemp, At, Steps
  <1>3. TypeOK'
    BY <1>1, <1>2, ReceiptOfType, BootAssumption DEF BootInv, TypeOK
  <1>4. HistoryOK' /\ OwnQuarantineOK'
    BY <1>1 DEF BootInv, HistoryOK, OwnQuarantineOK, Authorities
  <1>5. RootOK' /\ ReceiptsOK' /\ TempOK'
    BY <1>1, BootAssumption DEF BootInv, RootOK, ReceiptsOK, TempOK, ReceiptOf
  <1>6. TaskOK'
    BY <1>1, <1>2, BootAssumption DEF TaskOK, At, ReceiptOf
  <1> QED  BY <1>3, <1>4, <1>5, <1>6 DEF BootInv

LEMMA CommitReceiptStep ==
    ASSUME BootInv, CommitReceipt
    PROVE  BootInv'
  <1>1. /\ marker \in Marker /\ marker.phase = "SealCommitted" /\ temp = None
        /\ task \in Task /\ task.at = "receipt" /\ receiptTemp = ReceiptOf(marker)
        /\ receipt' = ReceiptOf(marker) /\ receiptTemp' = None
        /\ UNCHANGED <<marker, temp, root, quarantine, bundle, aged, ran>>
        /\ OwnQuarantine = {} /\ OwnQuarantine' = {}
    BY RunningHasNoQuarantine
       DEF BootInv, TypeOK, CommitReceipt, At, Outside, OwnQuarantine, TaskOK
  <1>2. task' \in Task /\ task' # None /\ task'.at = "temp"
    BY <1>1, GoTo DEF BootInv, CommitReceipt, At, Steps
  <1>3. TypeOK'
    BY <1>1, <1>2, ReceiptOfType, BootAssumption DEF BootInv, TypeOK
  <1>4. HistoryOK' /\ OwnQuarantineOK'
    BY <1>1 DEF BootInv, HistoryOK, OwnQuarantineOK, Authorities
  <1>5. RootOK' /\ ReceiptsOK' /\ TempOK'
    BY <1>1, BootAssumption DEF BootInv, RootOK, ReceiptsOK, TempOK, ReceiptOf
  <1>6. TaskOK'
    BY <1>1, <1>2, BootAssumption DEF BootInv, RootOK, TaskOK, At, ReceiptOf, EffectDone
  <1> QED  BY <1>3, <1>4, <1>5, <1>6 DEF BootInv

\* The replacement is a marker of the same attempt.
LEMMA SuccessorType ==
    ASSUME NEW m \in Marker, m.phase # "Adopted", NEW id \in Nat
    PROVE  /\ Successor(m, id) \in Marker /\ Successor(m, id) \notin {None, Torn}
           /\ Successor(m, id).gen = m.gen /\ Successor(m, id).bundle = m.bundle
           /\ Successor(m, id).root = id
           /\ Successor(m, id).phase = NextPhase[m.phase]
  <1>1. NextPhase[m.phase] \in Phases
    BY DEF NextPhase, Phases, Marker
  <1>2. /\ Successor(m, id) \in Marker
        /\ Successor(m, id).gen = m.gen /\ Successor(m, id).bundle = m.bundle
        /\ Successor(m, id).root = id
        /\ Successor(m, id).phase = NextPhase[m.phase]
    BY <1>1 DEF Successor, Marker
  <1> QED  BY <1>2, BootAssumption

LEMMA WriteMarkerTempStep ==
    ASSUME BootInv, NEW written \in BOOLEAN, WriteMarkerTemp(written)
    PROVE  BootInv'
  <1>1. /\ marker \in Marker /\ marker.phase # "Adopted" /\ temp = None /\ EffectDone
        /\ root \in Root
        /\ task \in Task /\ task.at = "temp"
        /\ marker.phase # "SealCommitted" => task.bundle = marker.bundle
        /\ temp' = IF written THEN Successor(marker, root.id) ELSE Torn
        /\ UNCHANGED <<marker, receipt, receiptTemp, root, quarantine, bundle, aged, ran>>
        /\ OwnQuarantine = {} /\ OwnQuarantine' = {}
    BY RunningHasNoQuarantine
       DEF BootInv, TypeOK, WriteMarkerTemp, At, Outside, OwnQuarantine, TaskOK, EffectDone
  <1>2. \/ written /\ task' \in Task /\ task' # None /\ task'.at = "rename" /\ task'.bundle = task.bundle
        \/ ~written /\ task' = None
    BY <1>1, GoTo DEF BootInv, WriteMarkerTemp, At, Steps
  <1>3. written => temp' \in Marker /\ temp' \notin {None, Torn} /\ temp'.gen = marker.gen
    BY <1>1, SuccessorType DEF Root
  <1>4. TypeOK'
    BY <1>1, <1>2, <1>3, BootAssumption DEF BootInv, TypeOK
  <1>5. HistoryOK' /\ OwnQuarantineOK'
    BY <1>1, <1>3, BootAssumption DEF BootInv, HistoryOK, OwnQuarantineOK, Authorities
  <1>6. RootOK' /\ ReceiptsOK'
    BY <1>1, BootAssumption DEF BootInv, RootOK, ReceiptsOK, ReceiptOf
  <1>7. EffectDone'
    BY <1>1 DEF EffectDone, ReceiptOf
  <1>8. TempOK'
    BY <1>1, <1>7, BootAssumption DEF TempOK, Successor
  <1>9. TaskOK'
    BY <1>1, <1>2, <1>3, BootAssumption DEF TaskOK, At
  <1> QED  BY <1>4, <1>5, <1>6, <1>8, <1>9 DEF BootInv
\* Renaming a complete replacement over its marker.
LEMMA RenameOverMarker ==
    ASSUME BootInv, marker \in Marker, temp \notin {None, Torn},
           marker' = temp, temp' = None,
           UNCHANGED <<receipt, receiptTemp, root, quarantine>>,
           temp.phase = "Adopted" => task' = None
    PROVE  /\ marker' \in Marker /\ EffectDone /\ marker'.phase = NextPhase[marker.phase]
           /\ marker'.bundle = marker.bundle
           /\ HistoryOK' /\ OwnQuarantineOK' /\ RootOK' /\ ReceiptsOK' /\ TempOK'
  <1>1. /\ EffectDone /\ temp = Successor(marker, root.id) /\ root \in Root
        /\ marker.phase # "Adopted" /\ OwnQuarantine = {}
    BY BootAssumption DEF BootInv, TempOK, EffectDone, TypeOK, OwnQuarantineOK
  <1>2. /\ marker' \in Marker /\ marker' \notin {None, Torn}
        /\ marker'.gen = marker.gen /\ marker'.bundle = marker.bundle
        /\ marker'.root = root.id /\ marker'.phase = NextPhase[marker.phase]
    BY <1>1, SuccessorType DEF Root
  <1>3. \/ marker.phase = "Prepared" /\ marker'.phase = "RootPublished"
        \/ marker.phase = "RootPublished" /\ marker'.phase = "JournalDurable"
        \/ marker.phase = "JournalDurable" /\ marker'.phase = "SealCommitted"
        \/ marker.phase = "SealCommitted" /\ marker'.phase = "Adopted"
    BY <1>1, <1>2 DEF NextPhase, Marker, Phases
  <1>4. OwnQuarantine' = {}
    BY <1>1, <1>2, BootAssumption DEF OwnQuarantine
  <1>5. HistoryOK' /\ OwnQuarantineOK'
    BY <1>2, <1>4, <1>1, BootAssumption DEF BootInv, HistoryOK, OwnQuarantineOK, Authorities
  <1>6. RootOK'
    BY <1>1, <1>2, <1>3, <1>4, BootAssumption DEF BootInv, RootOK, EffectDone
  <1>7. marker.phase = "SealCommitted" => marker.root = root.id
    BY <1>1, BootAssumption DEF BootInv, RootOK
  <1>8. ReceiptsOK'
    BY <1>1, <1>2, <1>3, <1>7, BootAssumption DEF BootInv, ReceiptsOK, EffectDone, ReceiptOf
  <1>9. TempOK'
    BY DEF TempOK
  <1> QED  BY <1>1, <1>2, <1>5, <1>6, <1>8, <1>9

\* What a command that goes on after a rename finds.
LEMMA EffectAfterRename ==
    ASSUME BootInv, marker \in Marker, EffectDone, OwnQuarantine = {},
           marker' \in Marker, marker'.phase = NextPhase[marker.phase],
           marker'.bundle = marker.bundle, marker.phase # "SealCommitted",
           UNCHANGED <<receipt, receiptTemp, root>>, temp' = None,
           task' # None, task'.at = "effect",
           marker.phase # "JournalDurable" => task'.bundle = marker.bundle
    PROVE  TaskOK'
  <1>1. \/ marker.phase = "Prepared" /\ marker'.phase = "RootPublished"
        \/ marker.phase = "RootPublished" /\ marker'.phase = "JournalDurable"
        \/ marker.phase = "JournalDurable" /\ marker'.phase = "SealCommitted"
    BY DEF NextPhase, Marker, Phases, EffectDone
  <1>2. /\ marker'.phase = "RootPublished" => ~root.journal
        /\ marker'.phase = "JournalDurable" => root.seal = None
        /\ receipt = None /\ receiptTemp = None
    BY <1>1, BootAssumption DEF BootInv, RootOK, ReceiptsOK, EffectDone
  <1> QED  BY <1>1, <1>2, BootAssumption DEF TaskOK, At

LEMMA ReplaceMarkerStep ==
    ASSUME BootInv, ReplaceMarker
    PROVE  BootInv'
  <1>1. /\ marker \in Marker /\ temp \notin {None, Torn} /\ temp \in Marker
        /\ task \in Task /\ task # None
        /\ marker.phase # "SealCommitted" => task.bundle = marker.bundle
        /\ marker' = temp /\ temp' = None
        /\ UNCHANGED <<receipt, receiptTemp, root, quarantine, bundle, aged, ran>>
    BY DEF BootInv, TypeOK, ReplaceMarker, At, Outside, TaskOK
  <1>2. \/ temp.phase = "Adopted" /\ task' = None
        \/ /\ temp.phase # "Adopted"
           /\ task' \in Task /\ task' # None /\ task'.at = "effect" /\ task'.bundle = task.bundle
    BY <1>1, GoTo DEF BootInv, ReplaceMarker, Steps
  <1>3. /\ marker' \in Marker /\ EffectDone /\ marker'.phase = NextPhase[marker.phase]
        /\ marker'.bundle = marker.bundle
        /\ HistoryOK' /\ OwnQuarantineOK' /\ RootOK' /\ ReceiptsOK' /\ TempOK'
    BY <1>1, <1>2, RenameOverMarker
  <1>4. TypeOK'
    BY <1>1, <1>2, <1>3 DEF BootInv, TypeOK
  <1>5. TaskOK'
    <2>1. CASE task' = None
      BY <2>1 DEF TaskOK, At
    <2>2. CASE task' # None
      <3>1. marker.phase # "SealCommitted"
        BY <1>1, <1>2, <1>3, <2>2 DEF NextPhase
      <3> QED
        BY <1>1, <1>2, <1>3, <2>2, <3>1, EffectAfterRename, RunningHasNoQuarantine
    <2> QED  BY <2>1, <2>2
  <1> QED  BY <1>3, <1>4, <1>5 DEF BootInv

LEMMA PublishMarkerStep ==
    ASSUME BootInv, PublishMarker
    PROVE  BootInv'
  <1>1. /\ marker = None /\ temp \in Marker /\ temp \notin {None, Torn} /\ temp.phase = "Prepared"
        /\ root = None /\ receipt = None /\ receiptTemp = None
        /\ task \in Task /\ task # None /\ task.bundle = temp.bundle
        /\ marker' = temp /\ temp' = None
        /\ UNCHANGED <<receipt, receiptTemp, root, quarantine, bundle, aged, ran>>
    BY DEF BootInv, TypeOK, PublishMarker, At, Outside, TaskOK, RootOK, ReceiptsOK
  <1>2. task' \in Task /\ task' # None /\ task'.at = "effect" /\ task'.bundle = marker'.bundle
    BY <1>1, GoTo DEF BootInv, PublishMarker, Steps
  <1>3. OwnQuarantine = {} /\ OwnQuarantine' = {}
    <2>1. OwnQuarantine = {}
      BY <1>1 DEF OwnQuarantine
    <2>2. \A q \in quarantine : q.gen < temp.gen
      BY <1>1, <2>1 DEF BootInv, HistoryOK, Authorities
    <2>3. \A q \in quarantine : q.gen \in Nat /\ temp.gen \in Nat
      BY <1>1 DEF BootInv, TypeOK, Kept, Marker
    <2> QED  BY <1>1, <2>1, <2>2, <2>3 DEF OwnQuarantine
  <1>4. TypeOK'
    BY <1>1, <1>2 DEF BootInv, TypeOK
  <1>5. HistoryOK' /\ OwnQuarantineOK'
    BY <1>1, <1>3, BootAssumption DEF BootInv, HistoryOK, OwnQuarantineOK, Authorities
  <1>6. RootOK' /\ ReceiptsOK' /\ TempOK'
    BY <1>1, <1>3 DEF RootOK, ReceiptsOK, TempOK
  <1>7. TaskOK'
    BY <1>1, <1>2 DEF TaskOK, At
  <1> QED  BY <1>4, <1>5, <1>6, <1>7 DEF BootInv

LEMMA InterruptStep ==
    ASSUME BootInv, Interrupt
    PROVE  BootInv'
  <1>1. task' = None /\ UNCHANGED <<marker, temp, receipt, receiptTemp, root, quarantine, bundle, aged, ran>>
    BY DEF Interrupt, authority, Outside
  <1>2. OwnQuarantine' = OwnQuarantine
    BY <1>1 DEF OwnQuarantine
  <1>3. TypeOK'
    BY <1>1 DEF BootInv, TypeOK
  <1>4. HistoryOK' /\ OwnQuarantineOK'
    BY <1>1, <1>2 DEF BootInv, HistoryOK, OwnQuarantineOK, Authorities
  <1>5. RootOK' /\ ReceiptsOK' /\ TempOK'
    BY <1>1, <1>2 DEF BootInv, RootOK, ReceiptsOK, TempOK, EffectDone, ReceiptOf, Successor
  <1>6. TaskOK'
    BY <1>1 DEF TaskOK, At
  <1> QED  BY <1>3, <1>4, <1>5, <1>6 DEF BootInv
------------------------------------------------------------------------------
(* A new attempt *)

\* A bounded set of numbers has a greatest one: the least of its bounds.
LEMMA MaxOfBounded ==
    ASSUME NEW S \in SUBSET Nat, S # {}, NEW bound \in Nat, \A x \in S : x <= bound
    PROVE  Max(S) \in S /\ \A x \in S : x <= Max(S)
  <1> DEFINE T == {n \in Nat : \A x \in S : x <= n}
             Less == OpToRel(<, Nat)
  <1>1. \E n \in T : \A k \in T : ~(<<k, n>> \in Less)
    <2>1. T \subseteq Nat /\ T # {}
      OBVIOUS
    <2>2. IsWellFoundedOn(Less, Nat)
      BY NatLessThanWellFounded
    <2> HIDE DEF T, Less
    <2> QED  BY <2>1, <2>2, WFMin
  <1>2. PICK n \in T : \A k \in T : ~(<<k, n>> \in Less)
    BY <1>1
  <1>3. \A k \in T : ~(k < n)
    BY <1>2 DEF OpToRel
  <1>4. n \in S
    <2>1. SUFFICES ASSUME n \notin S PROVE FALSE
      OBVIOUS
    <2>2. PICK x \in S : TRUE
      OBVIOUS
    <2>3. n \in Nat /\ \A y \in S : y \in Nat /\ y < n
      BY <2>1
    <2>4. n - 1 \in T /\ n - 1 < n
      BY <2>2, <2>3
    <2> QED  BY <2>4, <1>3
  <1>5. \E x \in S : \A y \in S : x >= y
    BY <1>4
  <1>6. Max(S) \in S /\ \A y \in S : Max(S) >= y
    BY <1>5 DEF Max
  <1> QED  BY <1>6

\* The next generation is above every retained one.
LEMMA NextGenerationIsNew ==
    ASSUME TypeOK, HistoryOK
    PROVE  /\ NextGeneration \in Nat \ {0}
           /\ \A q \in quarantine : q.gen < NextGeneration
  <1> DEFINE S == {0} \cup {q.gen : q \in quarantine}
  <1>1. S \in SUBSET Nat /\ S # {} /\ \A x \in S : x <= MaxAttempts
    BY BootAssumption DEF HistoryOK
  <1>2. Max(S) \in S /\ \A x \in S : x <= Max(S)
    <2> HIDE DEF S
    <2> QED  BY <1>1, MaxOfBounded, BootAssumption
  <1>3. Max(S) \in Nat /\ \A q \in quarantine : q.gen \in Nat /\ q.gen <= Max(S)
    BY <1>1, <1>2
  <1> HIDE DEF S
  <1>4. NextGeneration = 1 + Max(S)
    BY DEF NextGeneration, S
  <1> QED  BY <1>3, <1>4

LEMMA BootstrapStep ==
    ASSUME BootInv, NEW written \in BOOLEAN, Bootstrap(written)
    PROVE  BootInv'
  <1> DEFINE new == [gen |-> NextGeneration, bundle |-> bundle, phase |-> "Prepared", root |-> UnboundRoot]
  <1>1. /\ task = None /\ root = None /\ marker = None /\ temp = None
        /\ receipt = None /\ receiptTemp = None
        /\ bundle \in Bundles
        /\ temp' = IF written THEN new ELSE Torn
        /\ UNCHANGED <<marker, receipt, receiptTemp, root, quarantine, bundle, aged, ran>>
        /\ NextGeneration <= MaxAttempts
    BY DEF BootInv, TypeOK, Bootstrap, Pristine, NoReceipts, Outside
  <1>2. /\ NextGeneration \in Nat \ {0}
        /\ \A q \in quarantine : q.gen < NextGeneration
    BY NextGenerationIsNew DEF BootInv
  <1>3. new \in Marker /\ new.gen = NextGeneration /\ new.phase = "Prepared" /\ new.bundle = bundle
    BY <1>1, <1>2 DEF Marker, Phases, UnboundRoot
  <1>4. new # None /\ new # Torn
    BY <1>3, BootAssumption
  <1> HIDE DEF new
  <1>5. \/ ~written /\ task' = None
        \/ written /\ task' \in Task /\ task' # None /\ task'.at = "publish" /\ task'.bundle = bundle
    BY <1>1, StartAt DEF Bootstrap, Steps
  <1>6. OwnQuarantine' = {}
    BY <1>1 DEF OwnQuarantine
  <1>7. TypeOK'
    BY <1>1, <1>3, <1>4, <1>5, BootAssumption DEF BootInv, TypeOK
  <1>8. HistoryOK' /\ OwnQuarantineOK'
    <2>1. \A m \in Authorities' : m.gen = NextGeneration
      BY <1>1, <1>3 DEF Authorities
    <2>2. NextGeneration \in 1..MaxAttempts
      BY <1>1, <1>2, BootAssumption
    <2> QED  BY <1>1, <1>2, <1>6, <2>1, <2>2 DEF BootInv, HistoryOK, OwnQuarantineOK
  <1>9. RootOK' /\ ReceiptsOK' /\ TempOK'
    BY <1>1, <1>3, <1>4 DEF RootOK, ReceiptsOK, TempOK
  <1>10. TaskOK'
    BY <1>1, <1>3, <1>4, <1>5 DEF TaskOK, At
  <1> QED  BY <1>7, <1>8, <1>9, <1>10 DEF BootInv
------------------------------------------------------------------------------
(* Recovery commands *)

LEMMA RemoveMarkerTempStep ==
    ASSUME BootInv, RemoveMarkerTemp
    PROVE  BootInv'
  <1>1. /\ task = None /\ marker = None /\ temp' = None
        /\ UNCHANGED <<marker, receipt, receiptTemp, root, quarantine, bundle, aged, task, ran>>
    BY UnpublishedMarkerTempClass DEF BootInv, RemoveMarkerTemp, Outside
  <1>2. TypeOK'
    BY <1>1 DEF BootInv, TypeOK
  <1>3. HistoryOK' /\ OwnQuarantineOK'
    BY <1>1 DEF BootInv, HistoryOK, OwnQuarantineOK, OwnQuarantine, Authorities
  <1>4. RootOK' /\ ReceiptsOK' /\ TempOK' /\ TaskOK'
    BY <1>1 DEF BootInv, RootOK, ReceiptsOK, TempOK, TaskOK, At
  <1> QED  BY <1>2, <1>3, <1>4 DEF BootInv

LEMMA QuarantineRootStep ==
    ASSUME BootInv, QuarantineRoot
    PROVE  BootInv'
  <1> DEFINE kept == [bundle |-> marker.bundle, gen |-> marker.gen, root |-> root, marker |-> None]
  <1>1. /\ task = None /\ temp = None /\ marker \in Marker
        /\ root \in Root /\ root.seal = None
        /\ \/ marker.phase = "RootPublished" /\ ~root.journal
           \/ marker.phase = "JournalDurable" /\ root.journal
    BY QuarantineClasses DEF BootInv, QuarantineRoot
  <1>2. /\ quarantine' = quarantine \cup {kept} /\ root' = None
        /\ UNCHANGED <<marker, temp, receipt, receiptTemp, bundle, aged, task, ran>>
    BY DEF QuarantineRoot, authority, Outside
  <1>3. /\ kept \in Kept /\ kept.gen = marker.gen /\ kept.root = root
        /\ kept.bundle = marker.bundle /\ kept.marker = None
    BY <1>1 DEF Kept, Marker
  <1> HIDE DEF kept
  <1>4. root.id = marker.root /\ root # None /\ marker # None /\ OwnQuarantine = {}
    BY <1>1, BootAssumption DEF BootInv, RootOK, OwnQuarantineOK
  <1>5. \A q \in quarantine : q.gen < marker.gen /\ q.gen \in Nat /\ marker.gen \in Nat
    BY <1>1, <1>4, BootAssumption DEF BootInv, TypeOK, HistoryOK, Authorities, Kept, Marker
  <1>6. OwnQuarantine' = {kept}
    BY <1>2, <1>3, <1>4, <1>5 DEF OwnQuarantine
  <1>7. TypeOK'
    BY <1>1, <1>2, <1>3 DEF BootInv, TypeOK
  <1>8. HistoryOK'
    <2>1. IsFiniteSet(quarantine')
      BY <1>2, FS_AddElement DEF BootInv, HistoryOK
    <2>2. marker.gen \in 1..MaxAttempts /\ Authorities' = {marker}
      BY <1>1, <1>2, <1>4, BootAssumption DEF BootInv, HistoryOK, Authorities
    <2>3. \A p, q \in quarantine' : p.gen = q.gen => p = q
      BY <1>2, <1>3, <1>5 DEF BootInv, HistoryOK
    <2>4. \A q \in quarantine' : q.root.seal = None /\ q.gen \in 1..MaxAttempts
      BY <1>1, <1>2, <1>3, <2>2 DEF BootInv, HistoryOK
    <2> QED  BY <1>2, <1>5, <1>6, <2>1, <2>2, <2>3, <2>4 DEF HistoryOK
  <1>9. OwnQuarantineOK'
    BY <1>1, <1>2, <1>3, <1>4, <1>6 DEF OwnQuarantineOK
  <1>10. RootOK' /\ ReceiptsOK' /\ TempOK' /\ TaskOK'
    BY <1>1, <1>2, <1>4, <1>6 DEF BootInv, RootOK, ReceiptsOK, ReceiptOf, TempOK, TaskOK, At
  <1> QED  BY <1>7, <1>8, <1>9, <1>10 DEF BootInv

LEMMA FinalizeQuarantineStep ==
    ASSUME BootInv, FinalizeQuarantine
    PROVE  BootInv'
  <1> DEFINE moved(q) == IF q \in QuarantinedAs(marker) THEN [q EXCEPT !.marker = marker] ELSE q
  <1>1. /\ task = None /\ temp = None /\ root = None /\ NoReceipts /\ marker \in Marker
        /\ quarantine' = {moved(q) : q \in quarantine} /\ marker' = None
        /\ UNCHANGED <<temp, receipt, receiptTemp, root, bundle, aged, task, ran>>
    BY QuarantinedClass DEF BootInv, FinalizeQuarantine, Outside
  <1>2. \A q \in quarantine : moved(q) \in Kept /\ moved(q).gen = q.gen /\ moved(q).root = q.root
    BY <1>1 DEF BootInv, TypeOK, Kept
  <1>3. IsFiniteSet(quarantine')
    <2> DEFINE f == [q \in quarantine |-> moved(q)]
    <2> HIDE DEF moved
    <2>1. f \in Surjection(quarantine, quarantine')
      BY <1>1 DEF Surjection
    <2>2. IsFiniteSet(quarantine)
      BY DEF BootInv, HistoryOK
    <2> HIDE DEF f
    <2> QED  BY <2>1, <2>2, FS_Surjection
  <1>4. TypeOK'
    BY <1>1, <1>2 DEF BootInv, TypeOK
  <1>5. HistoryOK' /\ OwnQuarantineOK'
    <2>1. \A q \in quarantine' : q.root.seal = None /\ q.gen \in 1..MaxAttempts
      BY <1>1, <1>2 DEF BootInv, HistoryOK
    <2>2. \A p, q \in quarantine' : p.gen = q.gen => p = q
      <3> HIDE DEF moved
      <3>1. \A p, q \in quarantine : moved(p).gen = moved(q).gen => p = q
        BY <1>2 DEF BootInv, HistoryOK
      <3> QED  BY <1>1, <3>1
    <2>3. Authorities' = {} /\ OwnQuarantine' = {}
      BY <1>1 DEF Authorities, OwnQuarantine
    <2> QED  BY <1>3, <2>1, <2>2, <2>3 DEF HistoryOK, OwnQuarantineOK
  <1>6. RootOK' /\ ReceiptsOK' /\ TempOK' /\ TaskOK'
    BY <1>1 DEF RootOK, ReceiptsOK, NoReceipts, TempOK, TaskOK, At
  <1> QED  BY <1>4, <1>5, <1>6 DEF BootInv

LEMMA ResumePreparedStep ==
    ASSUME BootInv, ResumePrepared
    PROVE  BootInv'
  <1>1. /\ task = None /\ temp = None /\ marker \in Marker /\ marker.phase = "Prepared" /\ root = None
        /\ bundle = marker.bundle /\ bundle \in Bundles /\ marker # None
        /\ UNCHANGED <<marker, temp, receipt, receiptTemp, root, quarantine, bundle, aged, ran>>
    BY PreparedWithoutRootClass, BootAssumption
       DEF BootInv, TypeOK, ResumePrepared, HistoricalSource, Authority, authority, Outside
  <1>2. task' \in Task /\ task' # None /\ task'.at = "effect" /\ task'.bundle = marker.bundle
    BY <1>1, StartAt DEF ResumePrepared, Steps
  <1>3. OwnQuarantine = {} /\ OwnQuarantine' = {}
    BY <1>1 DEF BootInv, OwnQuarantineOK, OwnQuarantine
  <1>4. TypeOK' /\ HistoryOK' /\ OwnQuarantineOK'
    BY <1>1, <1>2, <1>3 DEF BootInv, TypeOK, HistoryOK, OwnQuarantineOK, Authorities
  <1>5. RootOK' /\ ReceiptsOK' /\ TempOK' /\ TaskOK'
    BY <1>1, <1>2, <1>3 DEF BootInv, RootOK, ReceiptsOK, TempOK, TaskOK, At
  <1> QED  BY <1>4, <1>5 DEF BootInv

LEMMA CompleteMarkerTempStep ==
    ASSUME BootInv, CompleteMarkerTemp
    PROVE  BootInv'
  <1>1. /\ task = None /\ marker \in Marker /\ temp \in Marker
        /\ marker.phase \in {"Prepared", "RootPublished", "JournalDurable"}
        /\ marker' = temp /\ temp' = None
        /\ UNCHANGED <<receipt, receiptTemp, root, quarantine, bundle, aged, ran>>
    BY CompletionClass DEF BootInv, CompleteMarkerTemp, Outside
  <1>2. temp \notin {None, Torn} /\ marker # None /\ bundle = marker.bundle /\ bundle \in Bundles
    BY <1>1, BootAssumption DEF BootInv, TypeOK, CompleteMarkerTemp, HistoricalSource, Authority
  <1>3. task' \in Task /\ task' # None /\ task'.at = "effect" /\ task'.bundle = marker.bundle
    BY <1>2, StartAt DEF CompleteMarkerTemp, Steps
  <1>4. OwnQuarantine = {}
    BY <1>2 DEF BootInv, OwnQuarantineOK
  <1>5. temp = Successor(marker, root.id) /\ temp.phase # "Adopted"
    <2>1. EffectDone /\ temp = Successor(marker, root.id) /\ root \in Root
      BY <1>2 DEF BootInv, TempOK, EffectDone, TypeOK
    <2>2. root.id \in Nat /\ marker.phase # "Adopted"
      BY <2>1, <1>1 DEF Root
    <2>3. temp.phase = NextPhase[marker.phase]
      BY <1>1, <2>1, <2>2, SuccessorType
    <2> QED  BY <1>1, <2>1, <2>3 DEF NextPhase
  <1>6. /\ marker' \in Marker /\ EffectDone /\ marker'.phase = NextPhase[marker.phase]
        /\ marker'.bundle = marker.bundle
        /\ HistoryOK' /\ OwnQuarantineOK' /\ RootOK' /\ ReceiptsOK' /\ TempOK'
    BY <1>1, <1>2, <1>5, RenameOverMarker
  <1>7. TypeOK'
    BY <1>1, <1>3, <1>6 DEF BootInv, TypeOK
  <1>8. TaskOK'
    BY <1>1, <1>3, <1>4, <1>6, EffectAfterRename
  <1> QED  BY <1>6, <1>7, <1>8 DEF BootInv

LEMMA AdoptionStep ==
    ASSUME BootInv,
           RemoveReceiptTempAndAdopt \/ AdoptCommittedRoot \/ StartSealCommittedToAdopted
    PROVE  BootInv'
  <1>1. /\ task = None /\ temp = None /\ marker \in Marker /\ marker.phase = "SealCommitted"
        /\ UNCHANGED <<marker, temp, receipt, root, quarantine, bundle, aged, ran>>
        /\ receiptTemp' \in {None, receiptTemp}
        /\ \/ receipt = None /\ receiptTemp' = None /\ Start("effect", None)
           \/ receipt # None /\ receiptTemp' = None /\ Start("temp", None)
    BY AdoptionClasses
       DEF BootInv, RemoveReceiptTempAndAdopt, AdoptCommittedRoot, StartSealCommittedToAdopted,
           authority, Outside, NoReceipts
  <1>2. /\ task' \in Task /\ task' # None
        /\ \/ receipt = None /\ receiptTemp' = None /\ task'.at = "effect"
           \/ receipt # None /\ receiptTemp' = None /\ task'.at = "temp"
    BY <1>1, StartAt DEF Steps
  <1>3. marker # None /\ OwnQuarantine = {} /\ OwnQuarantine' = {}
    BY <1>1, BootAssumption DEF BootInv, OwnQuarantineOK, OwnQuarantine
  <1>4. TypeOK' /\ HistoryOK' /\ OwnQuarantineOK'
    BY <1>1, <1>2, <1>3 DEF BootInv, TypeOK, HistoryOK, OwnQuarantineOK, Authorities
  <1>5. RootOK' /\ ReceiptsOK' /\ TempOK'
    BY <1>1, <1>2, <1>3 DEF BootInv, RootOK, ReceiptsOK, ReceiptOf, TempOK
  <1>6. receipt # None => receipt = ReceiptOf(marker)
    BY <1>1, <1>3 DEF BootInv, ReceiptsOK
  <1>7. root # None /\ root.journal /\ root.seal = marker.bundle
    BY <1>1, <1>3 DEF BootInv, RootOK
  <1>8. TaskOK'
    BY <1>1, <1>2, <1>3, <1>6, <1>7 DEF TaskOK, At, EffectDone, ReceiptOf
  <1> QED  BY <1>4, <1>5, <1>8 DEF BootInv

LEMMA CompleteAdoptionStep ==
    ASSUME BootInv, CompleteSealCommittedToAdopted
    PROVE  BootInv'
  <1>1. /\ task = None /\ marker \in Marker /\ temp \in Marker /\ temp \notin {None, Torn}
        /\ marker' = temp /\ temp' = None
        /\ UNCHANGED <<receipt, receiptTemp, root, quarantine, bundle, aged, task, ran>>
    BY AdoptionClasses, BootAssumption DEF BootInv, CompleteSealCommittedToAdopted, Outside
  <1>2. HistoryOK' /\ OwnQuarantineOK' /\ RootOK' /\ ReceiptsOK' /\ TempOK'
    BY <1>1, RenameOverMarker
  <1>3. TypeOK' /\ TaskOK'
    BY <1>1 DEF BootInv, TypeOK, TaskOK, At
  <1> QED  BY <1>2, <1>3 DEF BootInv

LEMMA OutsideStep ==
    ASSUME BootInv, OrdinaryRun \/ \E b \in Bundles : Install(b) \/ Age(b)
    PROVE  BootInv'
  <1>1. /\ UNCHANGED <<marker, temp, receipt, receiptTemp, root, quarantine, task>>
        /\ bundle' \in Bundles /\ aged' \subseteq Bundles
    BY DEF BootInv, TypeOK, OrdinaryRun, Install, Age, authority
  <1>2. ran' \subseteq Nat
    <2>1. OrdinaryRun => root \in Root /\ ran' = ran \cup {root.id}
      BY DEF BootInv, TypeOK, OrdinaryRun, Admitted, Sealed, HasRoot
    <2> QED  BY <2>1 DEF BootInv, TypeOK, Root, Install, Age
  <1>3. TypeOK'
    BY <1>1, <1>2 DEF BootInv, TypeOK
  <1>4. OwnQuarantine' = OwnQuarantine
    BY <1>1 DEF OwnQuarantine
  <1>5. HistoryOK' /\ OwnQuarantineOK' /\ RootOK'
    BY <1>1, <1>4 DEF BootInv, HistoryOK, OwnQuarantineOK, Authorities, RootOK
  <1>6. ReceiptsOK' /\ TempOK' /\ TaskOK'
    BY <1>1 DEF BootInv, ReceiptsOK, TempOK, TaskOK, At, EffectDone, ReceiptOf, Successor
  <1> QED  BY <1>3, <1>5, <1>6 DEF BootInv
------------------------------------------------------------------------------
(* The invariant, and what follows from it *)

LEMMA BootInit ==
    ASSUME Init
    PROVE  BootInv
  <1>1. IsFiniteSet(quarantine)
    BY FS_EmptySet DEF Init
  <1>2. Authorities = {} /\ OwnQuarantine = {}
    BY DEF Init, Authorities, OwnQuarantine
  <1>3. TypeOK
    BY DEF Init, TypeOK
  <1>4. HistoryOK /\ OwnQuarantineOK
    BY <1>1, <1>2 DEF Init, HistoryOK, OwnQuarantineOK
  <1>5. RootOK /\ ReceiptsOK /\ TempOK /\ TaskOK
    BY DEF Init, RootOK, ReceiptsOK, TempOK, TaskOK, At
  <1> QED  BY <1>3, <1>4, <1>5 DEF BootInv

LEMMA BootStutter ==
    ASSUME BootInv, UNCHANGED vars
    PROVE  BootInv'
  <1>1. UNCHANGED <<marker, temp, receipt, receiptTemp, root, quarantine, bundle, aged, task, ran>>
    BY DEF vars, authority
  <1>2. TypeOK'
    BY <1>1 DEF BootInv, TypeOK
  <1>3. HistoryOK' /\ OwnQuarantineOK' /\ RootOK'
    BY <1>1 DEF BootInv, HistoryOK, OwnQuarantineOK, OwnQuarantine, Authorities, RootOK
  <1>4. ReceiptsOK' /\ TempOK' /\ TaskOK'
    BY <1>1 DEF BootInv, ReceiptsOK, TempOK, TaskOK, At, EffectDone, ReceiptOf, Successor
  <1> QED  BY <1>2, <1>3, <1>4 DEF BootInv

LEMMA BootStep ==
    ASSUME BootInv, [Next]_vars
    PROVE  BootInv'
  <1>1. CASE \E written \in BOOLEAN : Bootstrap(written)
    BY <1>1, BootstrapStep
  <1>2. CASE Advance
    BY <1>2, PublishMarkerStep, MakeRootStep, CreateJournalStep, CommitInitialSealStep,
       WriteReceiptTempStep, CommitReceiptStep, WriteMarkerTempStep, ReplaceMarkerStep DEF Advance
  <1>3. CASE WriteReceiptTemp(FALSE) \/ WriteMarkerTemp(FALSE)
    BY <1>3, WriteReceiptTempStep, WriteMarkerTempStep
  <1>4. CASE Interrupt
    BY <1>4, InterruptStep
  <1>5. CASE Recover
    BY <1>5, RemoveMarkerTempStep, QuarantineRootStep, FinalizeQuarantineStep, ResumePreparedStep,
       CompleteMarkerTempStep, AdoptionStep, CompleteAdoptionStep DEF Recover
  <1>6. CASE OrdinaryRun \/ \E b \in Bundles : Install(b) \/ Age(b)
    BY <1>6, OutsideStep
  <1>7. CASE UNCHANGED vars
    BY <1>7, BootStutter
  <1> QED  BY <1>1, <1>2, <1>3, <1>4, <1>5, <1>6, <1>7 DEF Next

LEMMA BootInvariant == Spec => []BootInv
  <1>1. Init => BootInv
    BY BootInit
  <1>2. BootInv /\ [Next]_vars => BootInv'
    BY BootStep
  <1> QED  BY <1>1, <1>2, PTL DEF Spec

\* What a classification finds quarantined is the root of the marker's own
\* attempt.
LEMMA OwnQuarantineIsFound ==
    ASSUME BootInv, marker \in Marker
    PROVE  Quarantined = OwnQuarantine /\ marker \in Authorities
  <1>1. marker \notin {None, Torn}
    BY BootAssumption
  <1>2. marker \in Authorities /\ Authority = marker
    BY <1>1 DEF Authorities, Authority
  <1>3. QuarantinedAs(marker) = OwnQuarantine
    BY <1>1 DEF QuarantinedAs, OwnQuarantine, BootInv, OwnQuarantineOK
  <1> QED  BY <1>2, <1>3 DEF Quarantined

\* Whatever was interrupted and continued, the types of the files are those
\* the code writes, and a command past its own temporary file has one.
THEOREM BootTypeCorrect == Spec => []TypeOK
  BY BootInvariant, PTL DEF BootInv

LEMMA BootInvPhaseIsTrue ==
    ASSUME BootInv
    PROVE  PhaseIsTrue
  <1> SUFFICES ASSUME NEW m \in Authorities PROVE Holds(m)
    BY DEF PhaseIsTrue
  <1>1. CASE marker = None
    <2>1. m = temp /\ m.phase = "Prepared"
      BY <1>1 DEF Authorities, BootInv, RootOK
    <2> QED  BY <2>1 DEF Holds
  <1>2. CASE marker \in Marker /\ OwnQuarantine = {}
    <2>1. Quarantined = {}
      BY <1>2, OwnQuarantineIsFound
    <2>2. RootIds = IF root = None THEN {} ELSE {root.id}
      BY <2>1 DEF RootIds
    <2>3. CASE m = marker
      <3>1. m.phase # "Prepared" => RootIds = {m.root} /\ root \in Root /\ root # None
        BY <1>2, <2>2, <2>3, BootAssumption DEF BootInv, RootOK, TypeOK
      <3>2. m.phase \in {"JournalDurable", "SealCommitted", "Adopted"} => root.journal
        BY <1>2, <2>3, BootAssumption DEF BootInv, RootOK
      <3>3. m.phase \in {"SealCommitted", "Adopted"} => root.seal = m.bundle /\ m.bundle # None
        BY <1>2, <2>3, BootAssumption DEF BootInv, RootOK, Marker
      <3>4. m.phase = "Adopted" => receipt = ReceiptOf(m)
        BY <1>2, <2>3, BootAssumption DEF BootInv, ReceiptsOK
      <3> QED
        BY <3>1, <3>2, <3>3, <3>4 DEF Holds, HasJournal, HasRoot, HasSeal, Sealed
    <2>4. CASE m = temp
      <3>1. /\ temp \notin {None, Torn} /\ marker # None
            /\ EffectDone /\ m = Successor(marker, root.id) /\ root \in Root /\ root # None
        BY <1>2, <2>4, BootAssumption DEF Authorities, BootInv, TempOK, EffectDone, TypeOK
      <3>2. /\ m.gen = marker.gen /\ m.bundle = marker.bundle /\ m.root = root.id
            /\ m.phase = NextPhase[marker.phase] /\ marker.phase # "Adopted"
        BY <1>2, <3>1, SuccessorType DEF EffectDone, Root
      <3>3. \/ marker.phase = "Prepared" /\ m.phase = "RootPublished"
            \/ marker.phase = "RootPublished" /\ m.phase = "JournalDurable"
            \/ marker.phase = "JournalDurable" /\ m.phase = "SealCommitted"
            \/ marker.phase = "SealCommitted" /\ m.phase = "Adopted"
        BY <1>2, <3>2 DEF NextPhase, Marker, Phases
      <3>4. m.phase # "RootPublished" => root.journal
        BY <3>1, <3>3 DEF EffectDone
      <3>5. m.phase \in {"SealCommitted", "Adopted"} => root.seal = m.bundle /\ m.bundle # None
        BY <1>2, <3>1, <3>2, <3>3, BootAssumption DEF EffectDone, Marker
      <3>6. m.phase = "Adopted" => receipt = ReceiptOf(m)
        <4>1. ASSUME m.phase = "Adopted"
              PROVE  m.root = marker.root
          BY <1>2, <3>2, <3>3, <4>1, <3>1 DEF BootInv, RootOK
        <4> QED  BY <3>1, <3>2, <3>3, <4>1 DEF EffectDone, ReceiptOf
      <3> QED
        BY <2>2, <3>1, <3>2, <3>3, <3>4, <3>5, <3>6 DEF Holds, HasJournal, HasRoot, HasSeal, Sealed
    <2> QED  BY <2>3, <2>4 DEF Authorities
  <1>3. CASE marker \in Marker /\ OwnQuarantine # {}
    <2>1. PICK q \in OwnQuarantine : TRUE
      BY <1>3
    <2>2. /\ temp = None /\ root = None /\ q.root.id = marker.root
          /\ marker.phase \in {"RootPublished", "JournalDurable"}
          /\ marker.phase = "JournalDurable" => q.root.journal
      BY <2>1 DEF BootInv, OwnQuarantineOK
    <2>3. OwnQuarantine = {q}
      BY <2>1 DEF BootInv, HistoryOK, OwnQuarantine
    <2>4. Quarantined = {q}
      BY <1>3, <2>3, OwnQuarantineIsFound
    <2>5. RootIds = {marker.root}
      BY <2>2, <2>4 DEF RootIds
    <2>6. m = marker
      BY <2>2 DEF Authorities
    <2> QED  BY <2>2, <2>4, <2>5, <2>6 DEF Holds
  <1> QED  BY <1>1, <1>2, <1>3 DEF BootInv, TypeOK

\* The marker, and the replacement a recovery may rename over it, never claim
\* more than is on disk (replace_marker follows the effect it records).
THEOREM PhaseIsTrueHolds == Spec => []PhaseIsTrue
  <1>1. BootInv => PhaseIsTrue
    BY BootInvPhaseIsTrue
  <1> QED  BY <1>1, BootInvariant, PTL

LEMMA BootInvAttemptsAreNew ==
    ASSUME BootInv
    PROVE  AttemptsAreNew
  <1>1. ASSUME NEW m \in Authorities, NEW q \in OwnQuarantine
        PROVE  q.gen = m.gen /\ q.marker = None /\ ~HasRoot
    <2>1. temp = None /\ root = None /\ q.marker = None
      BY <1>1 DEF BootInv, OwnQuarantineOK
    <2> QED  BY <2>1, <1>1 DEF Authorities, OwnQuarantine, HasRoot
  <1> QED  BY <1>1 DEF AttemptsAreNew, BootInv, HistoryOK

\* No attempt takes the transaction id of a quarantined one, and no sealed
\* root is quarantined (attempt generation from the retained quarantine).
THEOREM AttemptsAreNewHolds == Spec => []AttemptsAreNew
  <1>1. BootInv => AttemptsAreNew
    BY BootInvAttemptsAreNew
  <1> QED  BY <1>1, BootInvariant, PTL

\* Nothing but an ordinary run is left to do to a root that is admitted: no
\* command runs, and no class that has a command is found.
LEMMA AdmittedIsLeftAlone ==
    ASSUME BootInv, Admitted, [Next]_vars
    PROVE  UNCHANGED <<marker, temp, receipt, receiptTemp, root>> /\ (OrdinaryRun \/ UNCHANGED ran)
  <1>1. /\ marker \in Marker /\ marker.phase = "Adopted" /\ marker # None
        /\ task = None /\ root # None
    BY PhaseOf, BootAssumption
       DEF Admitted, BootInv, TypeOK, Phases, ReceiptsOK, Sealed, HasRoot
  <1>2. ~\E written \in BOOLEAN : Bootstrap(written)
    BY <1>1 DEF Bootstrap, Pristine
  <1>3. ~Advance /\ ~WriteReceiptTemp(FALSE) /\ ~WriteMarkerTemp(FALSE) /\ ~Interrupt
    BY <1>1 DEF Advance, PublishMarker, MakeRoot, CreateJournal, CommitInitialSeal, WriteReceiptTemp,
       CommitReceipt, WriteMarkerTemp, ReplaceMarker, Interrupt, At
  <1>4. ~RemoveMarkerTemp /\ ~QuarantineRoot /\ ~ResumePrepared
    BY <1>1, UnpublishedMarkerTempClass, QuarantineClasses, PreparedWithoutRootClass
       DEF RemoveMarkerTemp, QuarantineRoot, ResumePrepared, BootInv
  <1>5. ~FinalizeQuarantine /\ ~CompleteMarkerTemp
    BY <1>1, QuarantinedClass, CompletionClass
       DEF FinalizeQuarantine, CompleteMarkerTemp, BootInv
  <1>6. /\ ~RemoveReceiptTempAndAdopt /\ ~AdoptCommittedRoot
        /\ ~StartSealCommittedToAdopted /\ ~CompleteSealCommittedToAdopted
    BY <1>1, AdoptionClasses
       DEF RemoveReceiptTempAndAdopt, AdoptCommittedRoot, StartSealCommittedToAdopted,
           CompleteSealCommittedToAdopted, BootInv
  <1>7. OrdinaryRun \/ (\E b \in Bundles : Install(b) \/ Age(b)) \/ UNCHANGED vars
    BY <1>2, <1>3, <1>4, <1>5, <1>6 DEF Next, Recover
  <1> QED  BY <1>7 DEF OrdinaryRun, Install, Age, vars, authority

\* Once an ordinary run was admitted to a root, no bootstrap, recovery or
\* interruption takes its admission away, and no other root is ever admitted.
THEOREM OneAuthorityHolds == Spec => []OneAuthority
  <1>1. Init => OneAuthority
    BY DEF Init, OneAuthority
  <1>2. BootInv /\ OneAuthority /\ [Next]_vars => OneAuthority'
    <2> SUFFICES ASSUME BootInv, OneAuthority, [Next]_vars
                 PROVE  OneAuthority'
      OBVIOUS
    <2>1. CASE Admitted
      <3>1. UNCHANGED <<marker, temp, receipt, receiptTemp, root>>
        BY <2>1, AdmittedIsLeftAlone
      <3>2. Admitted'
        BY <2>1, <3>1 DEF Admitted, Phase, Sealed, HasRoot, HasJournal, HasSeal, ReceiptOf
      <3>3. ran' = ran \/ ran' = ran \cup {root.id}
        BY <2>1, AdmittedIsLeftAlone DEF OrdinaryRun
      <3> QED  BY <3>1, <3>2, <3>3 DEF OneAuthority
    <2>2. CASE ~Admitted
      <3>1. ran = {} /\ ~OrdinaryRun
        BY <2>2 DEF OneAuthority, OrdinaryRun
      <3>2. UNCHANGED ran
        BY <3>1 DEF Next, Bootstrap, Advance, PublishMarker, MakeRoot, CreateJournal,
           CommitInitialSeal, WriteReceiptTemp, CommitReceipt, WriteMarkerTemp, ReplaceMarker,
           Interrupt, Recover, RemoveMarkerTemp, QuarantineRoot, FinalizeQuarantine, ResumePrepared,
           CompleteMarkerTemp, RemoveReceiptTempAndAdopt, AdoptCommittedRoot,
           StartSealCommittedToAdopted, CompleteSealCommittedToAdopted, Install, Age, Outside, vars
      <3> QED  BY <3>1, <3>2 DEF OneAuthority
    <2> QED  BY <2>1, <2>2
  <1> QED  BY <1>1, <1>2, BootInvariant, PTL DEF Spec

------------------------------------------------------------------------------
(* The classifier *)

\* What each predicate says of the marker's phase, of a replacement, of the
\* root and of the receipts: enough to tell any two of them apart.
LEMMA PredicateMarks ==
    ASSUME TypeOK
    PROVE  /\ Predicates["NoRoot"] => Phase(marker) = None /\ temp = None
           /\ Predicates["UnpublishedMarkerTemp"] => Phase(marker) = None /\ temp # None
           /\ Predicates["PreparedWithoutRoot"] => Phase(marker) = "Prepared" /\ temp = None
           /\ Predicates["RootWithoutJournal"] =>
                 Phase(marker) = "RootPublished" /\ temp = None /\ HasRoot
           /\ Predicates["JournalWithoutSeal"] =>
                 Phase(marker) = "JournalDurable" /\ temp = None /\ HasRoot
           /\ Predicates["CommittedRootReceiptTemp"] =>
                 /\ Phase(marker) = "SealCommitted" /\ temp = None
                 /\ receipt = None /\ receiptTemp # None
           /\ Predicates["CommittedRootResponseLost"] =>
                 /\ Phase(marker) = "SealCommitted" /\ temp = None
                 /\ receipt = None /\ receiptTemp = None
           /\ Predicates["QuarantinedIncompleteRoot"] =>
                 Phase(marker) \in {"RootPublished", "JournalDurable"} /\ temp = None /\ ~HasRoot
           /\ Predicates["ReceiptCommittedMarkerUpdatePending"] =>
                 Phase(marker) = "SealCommitted" /\ temp = None /\ receipt # None
           /\ Predicates["AdoptedCommittedRoot"] => Phase(marker) = "Adopted"
           /\ Predicates["PreparedToRootPublishedMarkerTempPending"] =>
                 Phase(marker) = "Prepared" /\ temp # None
           /\ Predicates["RootPublishedToJournalDurableMarkerTempPending"] =>
                 Phase(marker) = "RootPublished" /\ temp # None
           /\ Predicates["JournalDurableToSealCommittedMarkerTempPending"] =>
                 Phase(marker) = "JournalDurable" /\ temp # None
           /\ Predicates["SealCommittedToAdoptedMarkerTempPending"] =>
                 Phase(marker) = "SealCommitted" /\ temp # None
  <1>1. marker = None => Phase(marker) = None
    BY DEF Phase
  <1>2. Phase(temp) = "Prepared" => temp # None
    BY PhaseOf, BootAssumption DEF TypeOK, Phases
  <1> QED  BY <1>1, <1>2 DEF Predicates, Settled, Pending, TempIsSuccessor, NoReceipts, Bare, Unsealed

LEMMA PredicatesExclusive ==
    ASSUME TypeOK, NEW c \in Matches, NEW d \in Matches
    PROVE  c = d
  <1>1. c \in DOMAIN Predicates /\ d \in DOMAIN Predicates /\ Predicates[c] /\ Predicates[d]
    BY DEF Matches
  <1>2. DOMAIN Predicates =
          {"NoRoot", "UnpublishedMarkerTemp", "PreparedWithoutRoot", "RootWithoutJournal",
           "JournalWithoutSeal", "CommittedRootReceiptTemp", "CommittedRootResponseLost",
           "QuarantinedIncompleteRoot", "ReceiptCommittedMarkerUpdatePending",
           "AdoptedCommittedRoot", "PreparedToRootPublishedMarkerTempPending",
           "RootPublishedToJournalDurableMarkerTempPending",
           "JournalDurableToSealCommittedMarkerTempPending",
           "SealCommittedToAdoptedMarkerTempPending"}
    BY DEF Predicates
  <1>3. None \notin Phases
    BY BootAssumption
  <1> HIDE DEF Matches
  <1> QED  BY <1>1, <1>2, <1>3, PredicateMarks DEF Phases

\* A match of the classifier is the only one.
LEMMA OneMatch ==
    ASSUME TypeOK
    PROVE  /\ Cardinality(Matches) <= 1
           /\ Matches # {} => Cardinality(Matches) = 1
  <1>1. CASE Matches = {}
    BY <1>1, FS_EmptySet
  <1>2. CASE Matches # {}
    <2>1. PICK c \in Matches : TRUE
      BY <1>2
    <2>2. Matches = {c}
      BY <2>1, PredicatesExclusive
    <2> QED  BY <2>2, FS_Singleton
  <1> QED  BY <1>1, <1>2

\* The classifier evaluates its predicates without precedence and fails closed
\* on two matches: that never happens, whatever is on disk.
THEOREM ClassifiedOnceHolds == Spec => []ClassifiedOnce
  <1>1. TypeOK => ClassifiedOnce
    BY OneMatch DEF ClassifiedOnce
  <1> QED  BY <1>1, BootTypeCorrect, PTL

\* Files between two commands that are not cut off in the middle and not in
\* one of the three windows are legible and have a class.
LEMMA FoundUnpublished ==
    ASSUME BootInv, temp # Torn, marker = None
    PROVE  Legible /\ Matches # {}
  <1>1. root = None /\ receipt = None /\ receiptTemp = None /\ ~HasRoot /\ ~HasSeal
    BY DEF BootInv, RootOK, ReceiptsOK, HasRoot, HasSeal
  <1>2. temp # None => temp \in Marker /\ temp.phase = "Prepared" /\ Phase(temp) = "Prepared"
    BY PhaseOf, BootAssumption DEF BootInv, RootOK, TypeOK, Phases
  <1>3. Quarantined = {}
    <2>1. CASE temp = None
      BY <2>1 DEF Quarantined, Authorities
    <2>2. CASE temp # None
      <3>1. Authority = temp /\ temp \in Authorities /\ OwnQuarantine = {} /\ temp.gen \in Nat
        BY <1>2, <2>2 DEF Authority, Authorities, OwnQuarantine, Marker
      <3>2. \A q \in quarantine : q.gen < temp.gen /\ q.gen \in Nat
        BY <3>1 DEF BootInv, HistoryOK
      <3>3. QuarantinedAs(temp) = {}
        BY <3>1, <3>2 DEF QuarantinedAs
      <3> QED  BY <3>1, <3>3 DEF Quarantined
    <2> QED  BY <2>1, <2>2
  <1>4. Legible
    BY <1>1, <1>2, BootAssumption DEF Legible, Authorities
  <1>5. Predicates["NoRoot"] \/ Predicates["UnpublishedMarkerTemp"]
    BY <1>1, <1>2, <1>3 DEF Predicates, NoReceipts, Active
  <1>6. {"NoRoot", "UnpublishedMarkerTemp"} \subseteq DOMAIN Predicates
    BY DEF Predicates
  <1> QED  BY <1>4, <1>5, <1>6 DEF Matches

LEMMA FoundQuarantined ==
    ASSUME BootInv, marker \in Marker, OwnQuarantine # {}
    PROVE  Legible /\ Matches # {}
  <1>1. PICK q \in OwnQuarantine : TRUE
    OBVIOUS
  <1>2. /\ temp = None /\ root = None /\ q.root.seal = None
        /\ marker.phase \in {"RootPublished", "JournalDurable"}
        /\ q.root.journal <=> marker.phase = "JournalDurable"
    BY <1>1 DEF BootInv, OwnQuarantineOK, HistoryOK, OwnQuarantine
  <1>3. receipt = None /\ receiptTemp = None /\ ~HasRoot /\ ~HasSeal
    BY <1>2 DEF BootInv, ReceiptsOK, HasRoot, HasSeal
  <1>4. Phase(marker) = marker.phase /\ q \in Quarantined
    BY <1>1, <1>2, PhaseOf, OwnQuarantineIsFound DEF Phases
  <1>5. Legible
    <2>1. \A m \in Authorities : m.phase # "Prepared" => RootIds = {m.root}
      BY BootInvPhaseIsTrue DEF PhaseIsTrue, Holds
    <2> QED  BY <1>2, <1>3, <2>1, BootAssumption DEF Legible
  <1>6. Predicates["QuarantinedIncompleteRoot"]
    BY <1>2, <1>3, <1>4 DEF Predicates, NoReceipts
  <1>7. "QuarantinedIncompleteRoot" \in DOMAIN Predicates
    BY DEF Predicates
  <1> QED  BY <1>5, <1>6, <1>7 DEF Matches

\* A marker that is in place and no replacement beside it.
LEMMA FoundSettled ==
    ASSUME BootInv, marker \in Marker, OwnQuarantine = {}, temp = None, receiptTemp # Torn,
           ~AheadOfMarker
    PROVE  Legible /\ Matches # {}
  <1>1. marker # None /\ Phase(marker) = marker.phase /\ marker.phase \in Phases
    BY BootAssumption, PhaseOf DEF Marker
  <1>2. Quarantined = {} /\ Active
    BY OwnQuarantineIsFound DEF Active
  <1>3. /\ marker.phase = "Prepared" => root = None
        /\ marker.phase = "RootPublished" => Bare
        /\ marker.phase = "JournalDurable" => Unsealed
        /\ marker.phase \in {"SealCommitted", "Adopted"} => Sealed /\ root.seal = marker.bundle
    <2>1. marker.bundle # None
      BY BootAssumption DEF Marker
    <2> QED  BY <1>1, <2>1 DEF BootInv, RootOK, AheadOfMarker, HasRoot, HasJournal, HasSeal, Bare, Unsealed,
                   Sealed
  <1>4. ReceiptOf(marker) # None
    BY ReceiptOfType
  <1>5. Legible
    <2>1. \A m \in Authorities : m.phase # "Prepared" => RootIds = {m.root}
      BY BootInvPhaseIsTrue DEF PhaseIsTrue, Holds
    <2>2. HasSeal => HasJournal /\ marker.phase \in {"SealCommitted", "Adopted"}
      BY <1>1, <1>3 DEF HasSeal, HasRoot, Bare, Unsealed, Sealed, Phases
    <2>3. HasSeal => SealAuthority = marker /\ marker.bundle = root.seal
      BY <1>3, <2>2, BootAssumption DEF SealAuthority, Phase, Phases
    <2>4. {receipt, receiptTemp} \subseteq {None, ExpectedReceipt}
      <3>1. CASE marker.phase \in {"SealCommitted", "Adopted"}
        <4>1. ExpectedReceipt = ReceiptOf(marker)
          BY <1>1, <1>3, <3>1 DEF ExpectedReceipt, Sealed
        <4>2. receipt \in {None, ReceiptOf(marker)} /\ receiptTemp \in {None, ReceiptOf(marker)}
          BY <1>1, <3>1 DEF BootInv, ReceiptsOK
        <4> QED  BY <4>1, <4>2
      <3>2. CASE marker.phase \notin {"SealCommitted", "Adopted"}
        BY <3>2 DEF BootInv, ReceiptsOK
      <3> QED  BY <3>1, <3>2
    <2> QED  BY <1>1, <1>2, <2>1, <2>2, <2>3, <2>4, BootAssumption DEF Legible
  <1>6. PICK c \in {"PreparedWithoutRoot", "RootWithoutJournal", "JournalWithoutSeal",
                    "CommittedRootReceiptTemp", "CommittedRootResponseLost",
                    "ReceiptCommittedMarkerUpdatePending", "AdoptedCommittedRoot"} : Predicates[c]
    <2>1. CASE marker.phase = "Prepared"
      BY <1>1, <1>2, <1>3, <2>1 DEF Predicates, Settled, NoReceipts, HasRoot, BootInv, ReceiptsOK
    <2>2. CASE marker.phase = "RootPublished"
      BY <1>1, <1>2, <1>3, <2>2 DEF Predicates, Settled, NoReceipts, BootInv, ReceiptsOK
    <2>3. CASE marker.phase = "JournalDurable"
      BY <1>1, <1>2, <1>3, <2>3 DEF Predicates, Settled, NoReceipts, BootInv, ReceiptsOK
    <2>4. CASE marker.phase = "SealCommitted"
      <3>1. receipt # None => receiptTemp = None
        BY <1>1, <2>4 DEF BootInv, ReceiptsOK
      <3> QED  BY <1>1, <1>2, <1>3, <2>4, <3>1 DEF Predicates, Settled, NoReceipts
    <2>5. CASE marker.phase = "Adopted"
      <3>1. receipt # None /\ receiptTemp = None
        BY <1>1, <1>4, <2>5 DEF BootInv, ReceiptsOK
      <3> QED  BY <1>1, <1>2, <1>3, <2>5, <3>1 DEF Predicates, Settled
    <2> QED  BY <1>1, <2>1, <2>2, <2>3, <2>4, <2>5 DEF Phases
  <1>7. c \in DOMAIN Predicates
    BY <1>6 DEF Predicates
  <1> QED  BY <1>5, <1>6, <1>7 DEF Matches

\* A replacement that is written completely and not renamed.
LEMMA FoundPending ==
    ASSUME BootInv, marker \in Marker, OwnQuarantine = {}, temp \notin {None, Torn}
    PROVE  Legible /\ Matches # {}
  <1>1. marker # None /\ Phase(marker) = marker.phase /\ marker.phase \in Phases
    BY BootAssumption, PhaseOf DEF Marker
  <1>2. Quarantined = {} /\ Active
    BY OwnQuarantineIsFound DEF Active
  <1>3. EffectDone /\ temp = Successor(marker, root.id) /\ root \in Root /\ temp \in Marker
    BY <1>1 DEF BootInv, TempOK, EffectDone, TypeOK
  <1>4. /\ temp.bundle = marker.bundle /\ temp.root = root.id
        /\ temp.phase = NextPhase[marker.phase] /\ marker.phase # "Adopted"
    BY <1>3, SuccessorType DEF EffectDone, Root
  <1>5. TempIsSuccessor /\ Phase(temp) = temp.phase /\ temp.phase \in Phases
    BY <1>1, <1>3, <1>4, PhaseOf DEF TempIsSuccessor, Marker
  <1>6. /\ marker.phase = "Prepared" => Bare
        /\ marker.phase = "RootPublished" => Unsealed
        /\ marker.phase \in {"JournalDurable", "SealCommitted"} => Sealed /\ root.seal = marker.bundle
    <2>1. marker.bundle # None /\ root # None
      BY <1>3, BootAssumption DEF Marker, EffectDone
    <2> QED  BY <1>1, <1>3, <2>1 DEF BootInv, RootOK, EffectDone, HasRoot, HasJournal, HasSeal,
                   Bare, Unsealed, Sealed
  <1>7. /\ marker.phase = "SealCommitted" =>
              receipt = ReceiptOf(marker) /\ receipt # None /\ receiptTemp = None
        /\ marker.phase # "SealCommitted" => NoReceipts
    BY <1>1, <1>3, <1>4, ReceiptOfType DEF EffectDone, BootInv, ReceiptsOK, NoReceipts
  <1>8. Legible
    <2>1. \A m \in Authorities : m.phase # "Prepared" => RootIds = {m.root}
      BY BootInvPhaseIsTrue DEF PhaseIsTrue, Holds
    <2>2. HasSeal => HasJournal /\ marker.phase \in {"JournalDurable", "SealCommitted"}
      BY <1>1, <1>4, <1>6 DEF HasSeal, HasRoot, Bare, Unsealed, Sealed, Phases
    <2>3. HasSeal => SealAuthority = temp /\ temp.bundle = root.seal
      BY <1>4, <1>5, <1>6, <2>2 DEF SealAuthority, NextPhase
    <2>4. {receipt, receiptTemp} \subseteq {None, ExpectedReceipt}
      <3>1. CASE marker.phase = "SealCommitted"
        BY <1>1, <1>6, <1>7, <3>1 DEF ExpectedReceipt, Sealed
      <3>2. CASE marker.phase # "SealCommitted"
        BY <1>7, <3>2 DEF NoReceipts
      <3> QED  BY <3>1, <3>2
    <2>5. temp # Torn /\ receiptTemp # Torn /\ temp # None
      BY <1>7, BootAssumption DEF NoReceipts
    <2> QED  BY <1>2, <2>1, <2>2, <2>3, <2>4, <2>5 DEF Legible
  <1>9. PICK c \in {"PreparedToRootPublishedMarkerTempPending",
                    "RootPublishedToJournalDurableMarkerTempPending",
                    "JournalDurableToSealCommittedMarkerTempPending",
                    "SealCommittedToAdoptedMarkerTempPending"} : Predicates[c]
    <2>1. marker.phase = "Prepared" => Predicates["PreparedToRootPublishedMarkerTempPending"]
      BY <1>1, <1>2, <1>5, <1>6, <1>7 DEF Predicates, Pending
    <2>2. marker.phase = "RootPublished" =>
            Predicates["RootPublishedToJournalDurableMarkerTempPending"]
      BY <1>1, <1>2, <1>5, <1>6, <1>7 DEF Predicates, Pending
    <2>3. marker.phase = "JournalDurable" =>
            Predicates["JournalDurableToSealCommittedMarkerTempPending"]
      BY <1>1, <1>2, <1>5, <1>6, <1>7 DEF Predicates, Pending
    <2>4. marker.phase = "SealCommitted" => Predicates["SealCommittedToAdoptedMarkerTempPending"]
      BY <1>1, <1>2, <1>5, <1>6, <1>7 DEF Predicates, Pending
    <2> HIDE DEF Predicates
    <2> QED  BY <1>1, <1>4, <2>1, <2>2, <2>3, <2>4 DEF Phases
  <1>10. c \in DOMAIN Predicates
    BY <1>9 DEF Predicates
  <1> QED  BY <1>8, <1>9, <1>10 DEF Matches

\* Outside a cut-off temporary file and the three windows between an effect and
\* its marker, every interruption leaves files that have exactly one class.
THEOREM CrashIsClassifiedHolds == Spec => []CrashIsClassified
  <1>1. BootInv => CrashIsClassified
    <2> SUFFICES ASSUME BootInv, task = None, temp # Torn, receiptTemp # Torn, ~AheadOfMarker
                 PROVE  ~Corrupt
      BY DEF CrashIsClassified
    <2>1. Legible /\ Matches # {}
      BY FoundUnpublished, FoundQuarantined, FoundSettled, FoundPending DEF BootInv, TypeOK
    <2> QED  BY <2>1, OneMatch DEF Corrupt, BootInv
  <1> QED  BY <1>1, BootInvariant, PTL
==============================================================================
