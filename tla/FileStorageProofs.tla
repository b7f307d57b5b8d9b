-------------------------- MODULE FileStorageProofs --------------------------
(***************************************************************************)
(* FileStorage implements the atomic Storage, for every set of states.     *)
(***************************************************************************)
EXTENDS FileStorage, TLAPS

\* The invariant holds when neither file exists.
LEMMA SaveInvInit == Init => SaveInv
BY FileStorageAssumption DEF Init, SaveInv, TypeOK, AckedSurvives, Content, Calls

\* Every system call, failure, crash and Load keeps it.
LEMMA SaveInvNext == SaveInv /\ [Next]_vars => SaveInv'
<1> SUFFICES ASSUME SaveInv, [Next]_vars PROVE SaveInv'
  OBVIOUS
<1> USE FileStorageAssumption DEF SaveInv, TypeOK, AckedSurvives, Content, Calls
<1>1. ASSUME NEW s \in State, Save(s) PROVE SaveInv'
  BY <1>1 DEF Save
<1>2. CASE MkdirAll
  BY <1>2 DEF MkdirAll
<1>3. CASE Open
  BY <1>3 DEF Open
<1>4. CASE Write
  BY <1>4 DEF Write
<1>5. CASE Rename
  BY <1>5 DEF Rename
<1>6. CASE Return
  BY <1>6 DEF Return
<1>7. CASE Fail
  BY <1>7 DEF Fail
<1>8. CASE Crash
  BY <1>8 DEF Crash
<1>9. CASE Load
  BY <1>9 DEF Load
<1>10. CASE UNCHANGED vars
  BY <1>10 DEF vars
<1> QED
  BY <1>1, <1>2, <1>3, <1>4, <1>5, <1>6, <1>7, <1>8, <1>9, <1>10 DEF Next

\* The invariant holds throughout.
LEMMA SaveInvariant == Spec => []SaveInv
BY SaveInvInit, SaveInvNext, PTL DEF Spec

\* FileStorage never leaves path torn, wherever Save fails or the process is
\* killed: Load parses what it reads, and NewRaft does not fail on it.
THEOREM PathNeverTorn == Spec => []TypeOK
<1>1. SaveInv => TypeOK
  BY DEF SaveInv
<1> QED  BY <1>1, SaveInvariant, PTL

\* FileStorage never loses an acknowledged state to anything but a later Save,
\* wherever Save fails or the process is killed.
THEOREM SavesSurvive == Spec => []AckedSurvives
<1>1. SaveInv => AckedSurvives
  BY DEF SaveInv
<1> QED  BY <1>1, SaveInvariant, PTL

\* Rename is the step at which Save takes effect; every other step of Save, its
\* failures and crashes change nothing Load could see.
LEMMA StepRefines == SaveInv /\ [Next]_vars => [Atomic!Next]_<<Content(path), loaded>>
<1> SUFFICES ASSUME SaveInv, [Next]_vars
             PROVE  [Atomic!Next]_<<Content(path), loaded>>
  OBVIOUS
<1> USE FileStorageAssumption DEF SaveInv, TypeOK, Calls
<1>1. CASE Rename
  <2>1. saving \in State /\ path' = saving /\ Content(path)' = saving /\ loaded' = loaded
    BY <1>1 DEF Rename, Content
  <2> QED  BY <2>1 DEF Atomic!Next, Atomic!Save
<1>2. CASE Load
  BY <1>2 DEF Load, Content, Atomic!Next, Atomic!Load
<1>3. CASE UNCHANGED <<path, loaded>>
  BY <1>3 DEF Content
<1> QED
  BY <1>1, <1>2, <1>3 DEF Next, Save, MkdirAll, Open, Write, Return, Fail, Crash, vars

\* FileStorage implements the atomic storage that module Raft's disk assumes.
THEOREM FilesAreAtomic == Spec => AtomicSpec
<1>1. Init => Atomic!Init
  BY DEF Init, Atomic!Init, Content
<1> QED  BY <1>1, StepRefines, SaveInvariant, PTL DEF Spec, AtomicSpec, Atomic!Spec
=============================================================================
