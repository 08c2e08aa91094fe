------------------------------ MODULE FirstBoot ------------------------------
(***************************************************************************)
(* The Stage 8B-P1-e first-boot transaction (runtime-durable-service/src/  *)
(* stage8b_p1e_first_boot_transaction.rs): how a durable root comes to be. *)
(* A marker file beside the root records how far the attempt is; each      *)
(* phase is an effect (directory, journal, seal, receipt) followed by the  *)
(* replacement of the marker through a temporary file.  After an           *)
(* interruption the files are classified from scratch, and the one         *)
(* recovery command the classification names is run by an operator.        *)
(*                                                                         *)
(* Every write, rename, unlink and mkdir is a step; a crash or an error    *)
(* between two of them ends the process.  One supervisor command runs at a *)
(* time; what holds its memory holds on disk, so `task` is only where it   *)
(* is and the source bundle it read.                                       *)
(*                                                                         *)
(* Data: a transaction id is the bundle and the attempt generation it is   *)
(* hashed from; marker_generation is the number of the phase; a seal is    *)
(* the bundle its package names; HMACs, modes and owners are left out, a   *)
(* half-written file is Torn.                                              *)
(***************************************************************************)
EXTENDS Naturals, FiniteSets, FiniteSetsExt

CONSTANTS Bundles,       \* source bundles an operator may install
          MaxAttempts,   \* bound on bootstrap_attempt_generation
          None, Torn

VARIABLES marker, temp,            \* transaction marker and its temporary file
          receipt, receiptTemp,    \* first-boot receipt and its temporary file
          root,                    \* the durable root directory
          quarantine,              \* roots moved away, with the markers moved after them
          bundle, aged,            \* the installed bundle; bundles too old for a new boot
          task,                    \* the supervisor command that runs
          ran                      \* roots an ordinary run was admitted to

authority == <<marker, temp, receipt, receiptTemp>>
vars == <<authority, root, quarantine, bundle, aged, task, ran>>

Phases == {"Prepared", "RootPublished", "JournalDurable", "SealCommitted", "Adopted"}
NextPhase ==
    [Prepared |-> "RootPublished", RootPublished |-> "JournalDurable",
     JournalDurable |-> "SealCommitted", SealCommitted |-> "Adopted"]

Marker  == [gen : Nat, bundle : Bundles, phase : Phases, root : Nat]
Receipt == [gen : Nat, bundle : Bundles, root : Nat]
Root    == [id : Nat, journal : BOOLEAN, seal : Bundles \cup {None}]
Kept    == [bundle : Bundles, gen : Nat, root : Root, marker : Marker \cup {None}]
Task    == [at : {"publish", "effect", "temp", "rename", "receipt"}, bundle : Bundles \cup {None}]

ASSUME BootAssumption ==
    /\ MaxAttempts \in Nat
    /\ None \notin Bundles \cup Phases \cup Marker \cup Receipt \cup Root \cup Task
    /\ Torn \notin Marker \cup Receipt /\ Torn # None

TypeOK ==
    /\ marker \in Marker \cup {None}
    /\ temp \in Marker \cup {None, Torn}
    /\ receipt \in Receipt \cup {None}
    /\ receiptTemp \in Receipt \cup {None, Torn}
    /\ root \in Root \cup {None}
    /\ quarantine \subseteq Kept
    /\ bundle \in Bundles /\ aged \subseteq Bundles
    /\ task \in Task \cup {None}
    /\ task # None => (task.at \in {"publish", "rename"} <=> temp # None)
    /\ ran \subseteq Nat

\* The parent as it is installed: nothing but an empty quarantine directory.
Init ==
    /\ marker = None /\ temp = None /\ receipt = None /\ receiptTemp = None
    /\ root = None /\ quarantine = {}
    /\ bundle \in Bundles /\ aged = {}
    /\ task = None /\ ran = {}

------------------------------------------------------------------------------
(* Classification *)

Phase(m) == IF m \in {None, Torn} THEN None ELSE m.phase
UnboundRoot == 0

Successor(m, id) == [m EXCEPT !.phase = NextPhase[m.phase], !.root = id]
ReceiptOf(m) == [gen |-> m.gen, bundle |-> m.bundle, root |-> m.root]

\* What a classification reads first: the transaction, and its quarantine.
Authorities == {marker, temp} \ {None, Torn}
Authority == IF marker # None THEN marker ELSE temp
QuarantinedAs(m) == {q \in quarantine : q.bundle = m.bundle /\ q.gen = m.gen}
Quarantined == IF Authorities = {} THEN {} ELSE QuarantinedAs(Authority)

RootIds == (IF root = None THEN {} ELSE {root.id}) \cup {q.root.id : q \in Quarantined}

HasRoot == root # None
HasJournal == HasRoot /\ root.journal
HasSeal == HasRoot /\ root.seal # None

SealAuthority == IF Phase(temp) \in {"SealCommitted", "Adopted"} THEN temp ELSE marker
ExpectedReceipt ==
    IF HasSeal /\ Phase(marker) \in {"SealCommitted", "Adopted"} THEN ReceiptOf(marker) ELSE None

\* Anything that cannot be read, or does not belong together, is an error.
Legible ==
    /\ temp # Torn /\ receiptTemp # Torn
    /\ ~(HasRoot /\ Quarantined # {})
    /\ HasSeal => HasJournal
    /\ \A m \in Authorities : m.phase # "Prepared" => RootIds = {m.root}
    /\ HasSeal => SealAuthority # None /\ SealAuthority.bundle = root.seal
    /\ {receipt, receiptTemp} \subseteq {None, ExpectedReceipt}

\* Mutant: the root identity is not taken from the replacement.
TempSameRoot ==
    /\ marker # None /\ marker.phase # "Adopted" /\ temp \notin {None, Torn}
    /\ temp = Successor(marker, marker.root)

TempIsSuccessor ==
    /\ marker # None /\ marker.phase # "Adopted" /\ temp \notin {None, Torn}
    /\ temp = Successor(marker, temp.root)

Bare     == HasRoot /\ ~HasJournal /\ ~HasSeal
Unsealed == HasRoot /\ HasJournal /\ ~HasSeal
Sealed   == HasRoot /\ HasJournal /\ HasSeal

\* Mutant: a receipt that is written and not committed goes unnoticed.
NoFinalReceipt == receipt = None

NoReceipts == receipt = None /\ receiptTemp = None

\* One marker in place and none half-replaced.
Settled(phase) == Phase(marker) = phase /\ temp = None
\* The marker's replacement is written and not renamed.
Pending(phase) == Phase(marker) = phase /\ TempIsSuccessor
Active == Quarantined = {}

\* The predicates of the classifier, evaluated without precedence.
Predicates ==
    [NoRoot |->
        marker = None /\ temp = None /\ ~HasRoot /\ NoReceipts,
     UnpublishedMarkerTemp |->
        marker = None /\ Phase(temp) = "Prepared" /\ ~HasRoot /\ NoReceipts /\ Active,
     PreparedWithoutRoot |->
        Settled("Prepared") /\ ~HasRoot /\ NoReceipts /\ Active,
     RootWithoutJournal |->
        Settled("RootPublished") /\ Bare /\ NoReceipts /\ Active,
     JournalWithoutSeal |->
        Settled("JournalDurable") /\ Unsealed /\ NoReceipts /\ Active,
     CommittedRootReceiptTemp |->
        Settled("SealCommitted") /\ Sealed /\ receipt = None /\ receiptTemp # None /\ Active,
     CommittedRootResponseLost |->
        Settled("SealCommitted") /\ Sealed /\ NoReceipts /\ Active,
     QuarantinedIncompleteRoot |->
        /\ temp = None /\ ~HasRoot /\ NoReceipts
        /\ \E q \in Quarantined : /\ q.root.seal = None
                                  /\ \/ Phase(marker) = "RootPublished" /\ ~q.root.journal
                                     \/ Phase(marker) = "JournalDurable" /\ q.root.journal,
     ReceiptCommittedMarkerUpdatePending |->
        Settled("SealCommitted") /\ Sealed /\ receipt # None /\ receiptTemp = None /\ Active,
     AdoptedCommittedRoot |->
        Settled("Adopted") /\ Sealed /\ receipt # None /\ receiptTemp = None /\ Active,
     PreparedToRootPublishedMarkerTempPending |->
        Pending("Prepared") /\ Bare /\ NoReceipts /\ Active,
     RootPublishedToJournalDurableMarkerTempPending |->
        Pending("RootPublished") /\ Unsealed /\ NoReceipts /\ Active,
     JournalDurableToSealCommittedMarkerTempPending |->
        Pending("JournalDurable") /\ Sealed /\ NoReceipts /\ Active,
     SealCommittedToAdoptedMarkerTempPending |->
        Pending("SealCommitted") /\ Sealed /\ receipt # None /\ receiptTemp = None /\ Active]

Matches == {c \in DOMAIN Predicates : Predicates[c]}

\* No process runs, and the files are in class c; other than exactly one
\* match is CorruptOrIdentityMismatch, for which no command exists.
Classified(c) == task = None /\ Legible /\ Matches = {c}
Corrupt == ~Legible \/ Cardinality(Matches) # 1

------------------------------------------------------------------------------
(* The transaction *)

At(step) == task # None /\ task.at = step
Go(step) == task' = [task EXCEPT !.at = step]
Start(step, b) == task' = [at |-> step, bundle |-> b]
Outside == UNCHANGED <<bundle, aged, ran>>

\* Retained quarantine must be complete to be counted.
HistoryAuthentic ==
    \A q \in quarantine : /\ q.marker # None
                          /\ q.marker.phase \in {"RootPublished", "JournalDurable"}
                          /\ q.root.id = q.marker.root /\ q.root.seal = None

\* Mutant: the first attempt after any number of quarantined ones.
FirstGeneration == 1

NextGeneration == 1 + Max({0} \cup {q.gen : q \in quarantine})

\* Mutant: only what an interrupted write leaves is looked for.
NoTemps == temp = None /\ receiptTemp = None

Pristine == root = None /\ marker = None /\ temp = None /\ NoReceipts

\* execute_bootstrap up to the temporary file of the first marker.
Bootstrap(written) ==
    /\ task = None
    /\ bundle \notin aged
    /\ Pristine /\ HistoryAuthentic
    /\ NextGeneration <= MaxAttempts
    /\ temp' = IF written THEN [gen |-> NextGeneration, bundle |-> bundle, phase |-> "Prepared",
                                root |-> UnboundRoot]
               ELSE Torn
    /\ IF written THEN Start("publish", bundle) ELSE UNCHANGED task
    /\ UNCHANGED <<marker, receipt, receiptTemp, root, quarantine>> /\ Outside

PublishMarker ==
    /\ At("publish")
    /\ marker = None
    /\ marker' = temp /\ temp' = None
    /\ Go("effect")
    /\ UNCHANGED <<receipt, receiptTemp, root, quarantine>> /\ Outside

\* The inode is none of the roots that exist.
MakeRoot ==
    /\ At("effect") /\ Phase(marker) = "Prepared"
    /\ root = None
    /\ root' = [id |-> 1 + Cardinality(quarantine), journal |-> FALSE, seal |-> None]
    /\ Go("temp")
    /\ UNCHANGED <<authority, quarantine>> /\ Outside

CreateJournal ==
    /\ At("effect") /\ Phase(marker) = "RootPublished"
    /\ Bare /\ root.id = marker.root
    /\ root' = [root EXCEPT !.journal = TRUE]
    /\ Go("temp")
    /\ UNCHANGED <<authority, quarantine>> /\ Outside

\* The journal is new or was reopened; the seal holds the package built from
\* the bundle the process read.
CommitInitialSeal ==
    /\ At("effect") /\ Phase(marker) = "JournalDurable"
    /\ Unsealed /\ root.id = marker.root
    /\ root' = [root EXCEPT !.seal = task.bundle]
    /\ Go("temp")
    /\ UNCHANGED <<authority, quarantine>> /\ Outside

WriteReceiptTemp(written) ==
    /\ At("effect") /\ Phase(marker) = "SealCommitted"
    /\ Sealed /\ root.seal = marker.bundle
    /\ receiptTemp = None
    /\ receiptTemp' = IF written THEN ReceiptOf(marker) ELSE Torn
    /\ IF written THEN Go("receipt") ELSE task' = None
    /\ UNCHANGED <<marker, temp, receipt, root, quarantine>> /\ Outside

CommitReceipt ==
    /\ At("receipt")
    /\ receipt = None
    /\ receipt' = receiptTemp /\ receiptTemp' = None
    /\ Go("temp")
    /\ UNCHANGED <<marker, temp, root, quarantine>> /\ Outside

\* replace_marker: write the successor ...
WriteMarkerTemp(written) ==
    /\ At("temp") /\ temp = None
    /\ temp' = IF written THEN Successor(marker, root.id) ELSE Torn
    /\ IF written THEN Go("rename") ELSE task' = None
    /\ UNCHANGED <<marker, receipt, receiptTemp, root, quarantine>> /\ Outside

\* ... and rename it over the marker.  An adopted marker ends the process.
ReplaceMarker ==
    /\ At("rename")
    /\ marker' = temp /\ temp' = None
    /\ IF temp.phase = "Adopted" THEN task' = None ELSE Go("effect")
    /\ UNCHANGED <<receipt, receiptTemp, root, quarantine>> /\ Outside

\* A crash, or an error of a file system call, at any step.
Interrupt ==
    /\ task # None
    /\ task' = None
    /\ UNCHANGED <<authority, root, quarantine>> /\ Outside

------------------------------------------------------------------------------
(* Recovery commands: the selector must name the class found *)

RemoveMarkerTemp ==
    /\ Classified("UnpublishedMarkerTemp")
    /\ temp' = None
    /\ UNCHANGED <<marker, receipt, receiptTemp, root, quarantine, task>> /\ Outside

QuarantineRoot ==
    /\ Classified("RootWithoutJournal") \/ Classified("JournalWithoutSeal")
    /\ quarantine' = quarantine \cup
           {[bundle |-> marker.bundle, gen |-> marker.gen, root |-> root, marker |-> None]}
    /\ root' = None
    /\ UNCHANGED <<authority, task>> /\ Outside

\* Mutant: the marker is copied.
FinalizeByCopy ==
    /\ Classified("QuarantinedIncompleteRoot")
    /\ \A q \in QuarantinedAs(marker) : q.marker = None
    /\ quarantine' = {IF q \in QuarantinedAs(marker) THEN [q EXCEPT !.marker = marker] ELSE q :
                         q \in quarantine}
    /\ UNCHANGED <<authority, root, task>> /\ Outside

\* The marker follows the root; the parent is pristine again.
FinalizeQuarantine ==
    /\ Classified("QuarantinedIncompleteRoot")
    /\ \A q \in QuarantinedAs(marker) : q.marker = None
    /\ quarantine' = {IF q \in QuarantinedAs(marker) THEN [q EXCEPT !.marker = marker] ELSE q :
                         q \in quarantine}
    /\ marker' = None
    /\ UNCHANGED <<temp, receipt, receiptTemp, root, task>> /\ Outside

\* Mutant: the installed bundle is taken for the marker's.
AnySource == TRUE

\* A continuation needs the bundle the marker names, however old.
HistoricalSource == bundle = Authority.bundle

ResumePrepared ==
    /\ Classified("PreparedWithoutRoot") /\ HistoricalSource
    /\ Start("effect", bundle)
    /\ UNCHANGED <<authority, root, quarantine>> /\ Outside

CompletionClasses ==
    {"PreparedToRootPublishedMarkerTempPending", "RootPublishedToJournalDurableMarkerTempPending",
     "JournalDurableToSealCommittedMarkerTempPending"}

CompleteMarkerTemp ==
    /\ \E c \in CompletionClasses : Classified(c)
    /\ HistoricalSource
    /\ marker' = temp /\ temp' = None
    /\ Start("effect", bundle)
    /\ UNCHANGED <<receipt, receiptTemp, root, quarantine>> /\ Outside

\* After the seal nothing of the source is needed.
RemoveReceiptTempAndAdopt ==
    /\ Classified("CommittedRootReceiptTemp")
    /\ receiptTemp' = None
    /\ Start("effect", None)
    /\ UNCHANGED <<marker, temp, receipt, root, quarantine>> /\ Outside

AdoptCommittedRoot ==
    /\ Classified("CommittedRootResponseLost")
    /\ Start("effect", None)
    /\ UNCHANGED <<authority, root, quarantine>> /\ Outside

\* Mutant: the replacement of the marker is taken to be written already.
StartAtRename ==
    /\ Classified("ReceiptCommittedMarkerUpdatePending")
    /\ Start("rename", None)
    /\ UNCHANGED <<authority, root, quarantine>> /\ Outside

StartSealCommittedToAdopted ==
    /\ Classified("ReceiptCommittedMarkerUpdatePending")
    /\ Start("temp", None)
    /\ UNCHANGED <<authority, root, quarantine>> /\ Outside

CompleteSealCommittedToAdopted ==
    /\ Classified("SealCommittedToAdoptedMarkerTempPending")
    /\ marker' = temp /\ temp' = None
    /\ UNCHANGED <<receipt, receiptTemp, root, quarantine, task>> /\ Outside

------------------------------------------------------------------------------
(* The ordinary run, and the operator *)

\* admit_stage8b_p1e_ordinary_run_v1
Admitted ==
    /\ temp = None /\ receiptTemp = None
    /\ Phase(marker) = "Adopted"
    /\ Sealed /\ root.id = marker.root /\ root.seal = marker.bundle
    /\ receipt = ReceiptOf(marker)

OrdinaryRun ==
    /\ task = None /\ Admitted
    /\ ran' = ran \cup {root.id}
    /\ UNCHANGED <<authority, root, quarantine, bundle, aged, task>>

Install(b) ==
    /\ bundle' = b
    /\ UNCHANGED <<authority, root, quarantine, aged, task, ran>>

Age(b) ==
    /\ aged' = aged \cup {b}
    /\ UNCHANGED <<authority, root, quarantine, bundle, task, ran>>

Advance ==
    \/ PublishMarker \/ MakeRoot \/ CreateJournal \/ CommitInitialSeal
    \/ WriteReceiptTemp(TRUE) \/ CommitReceipt \/ WriteMarkerTemp(TRUE) \/ ReplaceMarker

Recover ==
    \/ RemoveMarkerTemp \/ QuarantineRoot \/ FinalizeQuarantine
    \/ ResumePrepared \/ CompleteMarkerTemp
    \/ RemoveReceiptTempAndAdopt \/ AdoptCommittedRoot
    \/ StartSealCommittedToAdopted \/ CompleteSealCommittedToAdopted

Next ==
    \/ \E written \in BOOLEAN : Bootstrap(written)
    \/ Advance
    \/ WriteReceiptTemp(FALSE) \/ WriteMarkerTemp(FALSE)
    \/ Interrupt
    \/ Recover
    \/ OrdinaryRun
    \/ \E b \in Bundles : Install(b) \/ Age(b)

Spec == Init /\ [][Next]_vars

\* Nothing fails, and the operator runs the command the class calls for.
CalmNext == Bootstrap(TRUE) \/ Advance \/ Recover \/ OrdinaryRun

FairSpec == Spec /\ WF_vars(CalmNext)

------------------------------------------------------------------------------
(* Properties *)

\* What a phase says has happened to the root it names.
Holds(m) ==
    /\ m.phase # "Prepared" => RootIds = {m.root}
    /\ m.phase = "JournalDurable" => HasJournal \/ \E q \in Quarantined : q.root.journal
    /\ m.phase \in {"SealCommitted", "Adopted"} => Sealed /\ root.seal = m.bundle
    /\ m.phase = "Adopted" => receipt = ReceiptOf(m)

\* The marker, and the replacement a recovery may rename over it, never claim
\* more than is on disk, whatever was interrupted and whichever bundle was
\* installed when it was continued (the effect precedes replace_marker; the
\* source of a continuation is the one the marker names).
PhaseIsTrue == \A m \in Authorities : Holds(m)

\* An attempt never takes the transaction id of a quarantined one, so the root
\* it leaves can be quarantined in turn; and no sealed root is ever among the
\* quarantined ones, where the next bootstrap would refuse it.
AttemptsAreNew ==
    /\ \A q \in quarantine : q.root.seal = None
    /\ \A p, q \in quarantine : p.gen = q.gen => p = q
    /\ \A m \in Authorities, q \in quarantine :
          q.gen < m.gen \/ (q.gen = m.gen /\ q.marker = None /\ ~HasRoot)

\* No state of the files satisfies two predicates, which would leave it
\* without a command ("zero/multiple matches fail closed").
ClassifiedOnce == Cardinality(Matches) <= 1

\* The effect is there and its marker is not: the three windows that the
\* classifier does not tell from corruption.
AheadOfMarker ==
    /\ temp = None
    /\ \/ Phase(marker) = "Prepared" /\ HasRoot
       \/ Phase(marker) = "RootPublished" /\ HasJournal
       \/ Phase(marker) = "JournalDurable" /\ HasSeal

\* Apart from these windows and a temporary file cut off in the middle, every
\* interruption of a bootstrap and of a recovery leaves files that have a
\* class, and with it a command.
CrashIsClassified ==
    task = None /\ Corrupt => temp = Torn \/ receiptTemp = Torn \/ AheadOfMarker

\* Once an ordinary run was admitted, no bootstrap and no recovery touches its
\* root again: it stays admitted, and no other root ever is.
OneAuthority == ran # {} => ran = {root.id} /\ Admitted

\* No command is left to run: the files have no class, the class is a
\* continuation and its bundle is not installed, or a new attempt is called
\* for and the installed bundle is too old.
NeedsSource ==
    \E c \in CompletionClasses \cup {"PreparedWithoutRoot"} : Classified(c)
Stuck ==
    /\ task = None
    /\ \/ Corrupt
       \/ NeedsSource /\ ~HistoricalSource
       \/ Classified("NoRoot") /\ (bundle \in aged \/ NextGeneration > MaxAttempts)

\* Once nothing is interrupted any more, running the required command again
\* and again ends in an adopted root, through quarantine and a new attempt
\* where it has to: no recovery leads back to where it started.
Converges == <>[][CalmNext]_vars => <>(ran # {} \/ Stuck)
==============================================================================
