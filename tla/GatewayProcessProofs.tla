------------------------- MODULE GatewayProcessProofs -----------------------
(***************************************************************************)
(* Proofs about the gateway process for every number of sessions, events,  *)
(* faults, kept files and lines in a file: the live audit file verifies,   *)
(* the kept files export what was written, and a drain cuts off no session *)
(* it could have waited for.                                               *)
(***************************************************************************)
EXTENDS GatewayProcess, SequenceTheorems, FiniteSetTheorems, WellFoundedInduction,
        TLAPS

-----------------------------------------------------------------------------
(* The state of the audit files. *)

Record == [hash : Int, seq : Int, prev : Int]
File == [there : BOOLEAN, lines : Seq(Record), open : BOOLEAN]
Rotating == {"remove", "shift", "rename", "open"}

AuditTypes ==
    /\ files \in [0 .. Retain -> File]
    /\ pc \in Rotating \cup {"idle", "append"}
    /\ index \in 0 .. Retain - 1
    /\ chain \in [seq : Int, prev : Int]
    /\ {events, bytes} \subseteq Nat

\* The next record continues the last one of the live file.
Linked ==
    /\ running /\ handle /\ ~files[0].open /\ Verifies(files[0])
    => chain.prev = Last(files[0].lines).hash

\* A file without its last newline comes from a torn write, and a running
\* process has noticed, or resumed it.
OpenIsTorn ==
    files[0].open => torn /\ (~running \/ integrity = "error" \/ joined)

\* Where emit() is tells what it has done to the live file.
EmitPlace ==
    /\ pc # "idle" => running
    /\ pc \in Rotating => ~handle
    /\ pc = "open" => files[0] = Absent

\* The inductive invariant.  LiveVerifies alone is not inductive: the record
\* that is appended must continue the file, and must not be joined to a line.
AuditInv == AuditTypes /\ Linked /\ OpenIsTorn /\ EmitPlace /\ LiveVerifies

-----------------------------------------------------------------------------
\* The constant records are what they look like.
LEMMA Constants ==
    /\ Bad \in Record
    /\ Absent \in File /\ Absent.lines = <<>> /\ ~Absent.open /\ ~Absent.there
    /\ Empty \in File /\ Empty.lines = <<>> /\ ~Empty.open
<1>1. <<>> \in Seq(Record)
  BY EmptySeq
<1> QED  BY <1>1 DEF Bad, Absent, Empty, Record, File

\* All but the last line of a file.
LEMMA FrontType ==
    ASSUME NEW s \in Seq(Record)
    PROVE  Front(s) \in Seq(Record)
<1>1. /\ Len(s) \in Nat
      /\ \A i \in 1 .. Len(s) - 1 : s[i] \in Record
  BY LenProperties, ElementOfSeq
<1> QED  BY <1>1, SubSeqProperties DEF Front

\* A file after a line was added to it.
LEMMA ExtendFile ==
    ASSUME NEW f \in File, NEW line \in Record, NEW open \in BOOLEAN
    PROVE  /\ Extend(f, line, open) \in File
           /\ Extend(f, line, open).open = open
           /\ Extend(f, line, open).lines # <<>>
           /\ Last(Extend(f, line, open).lines) = IF f.open THEN Bad ELSE line
           /\ ~f.open => Extend(f, line, open).lines = Append(f.lines, line)
<1> DEFINE base == IF f.open THEN Front(f.lines) ELSE f.lines
           new == IF f.open THEN Bad ELSE line
<1>1. f.lines \in Seq(Record) /\ f.open \in BOOLEAN /\ f.there \in BOOLEAN
  BY DEF File
<1>2. base \in Seq(Record) /\ new \in Record
  BY <1>1, FrontType, Constants
<1>3. Extend(f, line, open) =
        [there |-> f.there, lines |-> Append(base, new), open |-> open]
  BY DEF Extend
<1> HIDE DEF base, new
<1>4. /\ Append(base, new) \in Seq(Record)
      /\ Len(Append(base, new)) = Len(base) + 1
      /\ Append(base, new)[Len(base) + 1] = new
      /\ Len(base) \in Nat
  BY <1>2, LenProperties
<1>5. Append(base, new) # <<>> /\ Last(Append(base, new)) = new
  BY <1>4 DEF Last
<1> QED  BY <1>1, <1>3, <1>4, <1>5 DEF File, base, new

\* A file that verifies, and takes a record that continues it, verifies.
LEMMA VerifiesAppend ==
    ASSUME NEW f \in File, NEW g \in File, NEW line \in Record,
           g.lines = Append(f.lines, line), line # Bad,
           \/ f.lines = <<>>
           \/ Verifies(f) /\ line.prev = Last(f.lines).hash
    PROVE  Verifies(g)
<1>1. f.lines \in Seq(Record)
  BY DEF File
<1>2. /\ Len(f.lines) \in Nat
      /\ DOMAIN g.lines = 1 .. Len(f.lines) + 1
      /\ Len(g.lines) = Len(f.lines) + 1
      /\ \A i \in 1 .. Len(f.lines) : g.lines[i] = f.lines[i]
      /\ g.lines[Len(f.lines) + 1] = line
  BY <1>1, LenProperties
<1>3. g.lines # <<>>
  BY <1>1
<1>4. CASE f.lines = <<>>
  BY <1>2, <1>3, <1>4 DEF Verifies
<1>5. CASE Verifies(f) /\ line.prev = Last(f.lines).hash
  <2>1. DOMAIN f.lines = 1 .. Len(f.lines)
    BY <1>1, LenProperties
  <2> SUFFICES ASSUME NEW i \in 1 .. Len(f.lines) + 1
               PROVE  /\ g.lines[i] # Bad
                      /\ i > 1 => g.lines[i].prev = g.lines[i - 1].hash
    BY <1>2, <1>3 DEF Verifies
  <2>2. CASE i \in 1 .. Len(f.lines)
    <3>1. i > 1 => i - 1 \in 1 .. Len(f.lines)
      BY <1>2
    <3> QED  BY <1>2, <1>5, <2>1, <2>2, <3>1 DEF Verifies
  <2>3. CASE i = Len(f.lines) + 1
    <3>1. i > 1 => Len(f.lines) \in 1 .. Len(f.lines) /\ i - 1 = Len(f.lines)
      BY <1>2, <2>3
    <3>2. i > 1 => g.lines[i - 1] = f.lines[Len(f.lines)]
      BY <1>2, <3>1
    <3>3. g.lines[i] = line
      BY <1>2, <2>3
    <3> QED  BY <1>5, <3>2, <3>3 DEF Last
  <2> QED  BY <1>2, <2>2, <2>3
<1> QED  BY <1>4, <1>5

\* A file whose last line is not a record does not verify.
LEMMA BadLast ==
    ASSUME NEW f \in File, f.lines # <<>>, Last(f.lines) = Bad
    PROVE  ~Verifies(f)
<1>1. Len(f.lines) \in DOMAIN f.lines
  BY LenProperties, EmptySeq DEF File
<1> QED  BY <1>1 DEF Verifies, Last

\* The line emit() makes.
LEMMA LineType ==
    ASSUME AuditTypes
    PROVE  /\ Line \in Record
           /\ Line # Bad
           /\ Line.hash = events
           /\ Line.prev = chain.prev
  BY DEF AuditTypes, Line, Record, Bad

-----------------------------------------------------------------------------
(* AuditInv is inductive: the initial states and one lemma for each step.  *)

LEMMA AuditInitially == AuditInit => AuditInv
<1> SUFFICES ASSUME AuditInit PROVE AuditInv
  OBVIOUS
<1>1. files[0] = Absent /\ files \in [0 .. Retain -> File]
  BY Constants, AuditAssumption DEF AuditInit
<1>2. AuditTypes
  BY <1>1, AuditAssumption DEF AuditInit, AuditTypes, NewChain, Genesis, Rotating
<1> QED
  BY <1>1, <1>2, Constants DEF AuditInit, AuditInv, Linked, OpenIsTorn,
     EmitPlace, LiveVerifies, Rotating

\* What steps that leave the live file alone must show.
LEMMA LiveUntouched ==
    ASSUME AuditInv, files'[0] = files[0], chain' = chain, AuditTypes', EmitPlace',
           running' => running, handle' => handle, torn' = torn, joined' = joined,
           integrity' = integrity \/ integrity' = "error"
    PROVE  AuditInv'
  BY DEF AuditInv, Linked, OpenIsTorn, LiveVerifies, Verifies, Last

LEMMA EmitStartKeeps == AuditInv /\ EmitStart => AuditInv'
<1> SUFFICES ASSUME AuditInv, EmitStart PROVE AuditInv'
  OBVIOUS
<1>1. AuditTypes'
  BY DEF AuditInv, EmitStart, AuditTypes, Rotating
<1>2. (pc' = "remove" /\ ~(bytes < MaxBytes)) \/ pc' = "append"
  BY AuditAssumption DEF AuditInv, AuditTypes, EmitStart
<1>3. handle' = (handle /\ bytes < MaxBytes)
  BY DEF EmitStart
<1>4. EmitPlace'
  BY <1>2, <1>3 DEF EmitPlace, EmitStart, Rotating
<1>5. handle' => handle
  BY <1>3
<1> QED  BY <1>1, <1>4, <1>5, LiveUntouched DEF EmitStart

LEMMA RotateFailsKeeps == AuditInv /\ RotateFails => AuditInv'
<1> SUFFICES ASSUME AuditInv, RotateFails PROVE AuditInv'
  OBVIOUS
<1>1. AuditTypes' /\ EmitPlace'
  BY DEF AuditInv, RotateFails, AuditTypes, EmitPlace, Rotating
<1> QED  BY <1>1, LiveUntouched DEF RotateFails

LEMMA RotateRemoveKeeps == AuditInv /\ RotateRemove => AuditInv'
<1> SUFFICES ASSUME AuditInv, RotateRemove PROVE AuditInv'
  OBVIOUS
<1>1. files' \in [0 .. Retain -> File] /\ files'[0] = files[0]
  BY Constants, AuditAssumption DEF AuditInv, AuditTypes, RotateRemove, Oldest
<1>2. AuditTypes'
  BY <1>1, AuditAssumption DEF AuditInv, AuditTypes, RotateRemove, Rotating,
     auditHistory
<1>3. EmitPlace'
  BY DEF AuditInv, EmitPlace, RotateRemove, Rotating
<1> QED  BY <1>1, <1>2, <1>3, LiveUntouched DEF RotateRemove, auditHistory

LEMMA RotateShiftKeeps == AuditInv /\ RotateShift => AuditInv'
<1> SUFFICES ASSUME AuditInv, RotateShift PROVE AuditInv'
  OBVIOUS
<1> USE AuditAssumption
<1>1. index \in 0 .. Retain - 1 /\ files \in [0 .. Retain -> File]
  BY DEF AuditInv, AuditTypes
<1>2. /\ files' \in [0 .. Retain -> File] /\ files'[0] = files[0]
      /\ index' \in 0 .. Retain - 1
  <2>1. CASE index = 0
    BY <1>1, <2>1 DEF RotateShift
  <2>2. CASE index # 0 /\ files[index].there
    <3> DEFINE f == [files EXCEPT ![index + 1] = files[index]]
    <3>1. files' = [f EXCEPT ![index] = Absent] /\ index' = index - 1
      BY <2>2 DEF RotateShift
    <3>2. f \in [0 .. Retain -> File] /\ f[0] = files[0]
      BY <1>1
    <3> HIDE DEF f
    <3> QED  BY <1>1, <2>2, <3>1, <3>2, Constants
  <2>3. CASE index # 0 /\ ~files[index].there
    BY <1>1, <2>3 DEF RotateShift
  <2> QED  BY <2>1, <2>2, <2>3
<1>3. AuditTypes' /\ EmitPlace'
  BY <1>2 DEF AuditInv, AuditTypes, EmitPlace, RotateShift, Rotating, auditHistory
<1> QED  BY <1>2, <1>3, LiveUntouched DEF RotateShift, auditHistory

LEMMA RotateRenameKeeps == AuditInv /\ RotateRename => AuditInv'
<1> SUFFICES ASSUME AuditInv, RotateRename PROVE AuditInv'
  OBVIOUS
<1>1. CASE files[0].there
  <2> DEFINE f == [files EXCEPT ![1] = files[0]]
  <2>1. f \in [0 .. Retain -> File]
    BY AuditAssumption DEF AuditInv, AuditTypes
  <2>2. files' = [f EXCEPT ![0] = Absent]
    BY <1>1 DEF RotateRename
  <2> HIDE DEF f
  <2>3. files' \in [0 .. Retain -> File] /\ files'[0] = Absent
    BY <2>1, <2>2, Constants, AuditAssumption
  <2>4. AuditTypes' /\ EmitPlace'
    BY <1>1, <2>3 DEF AuditInv, AuditTypes, EmitPlace, RotateRename, Rotating
  <2> QED
    BY <2>3, <2>4, Constants DEF AuditInv, Linked, OpenIsTorn, LiveVerifies, Verifies
<1>2. CASE ~files[0].there
  <2>1. AuditTypes' /\ EmitPlace'
    BY <1>2 DEF AuditInv, AuditTypes, EmitPlace, RotateRename, Rotating
  <2> QED  BY <1>2, <2>1, LiveUntouched DEF RotateRename
<1> QED  BY <1>1, <1>2

LEMMA RotateOpenKeeps == AuditInv /\ RotateOpen => AuditInv'
<1> SUFFICES ASSUME AuditInv, RotateOpen PROVE AuditInv'
  OBVIOUS
<1>1. files[0] = Absent
  BY DEF AuditInv, EmitPlace, RotateOpen
<1>2. files' = [files EXCEPT ![0] = Empty] /\ bytes' = 0
  BY <1>1, Constants, AuditAssumption, EmptySeq DEF AuditInv, AuditTypes, RotateOpen
<1>3. files' \in [0 .. Retain -> File] /\ files'[0] = Empty
  BY <1>2, Constants, AuditAssumption DEF AuditInv, AuditTypes
<1>4. AuditTypes' /\ EmitPlace'
  BY <1>2, <1>3 DEF AuditInv, AuditTypes, EmitPlace, RotateOpen, RotatedChain,
     Rotating, auditHistory
<1> QED
  BY <1>3, <1>4, Constants DEF AuditInv, Linked, OpenIsTorn, LiveVerifies, Verifies

LEMMA AppendDoneKeeps == AuditInv /\ AppendDone => AuditInv'
<1> SUFFICES ASSUME AuditInv, AppendDone PROVE AuditInv'
  OBVIOUS
<1> DEFINE live == files[0]
           new == Extend(live, Line, FALSE)
<1>1. live \in File /\ Line \in Record /\ Line # Bad
  BY LineType, AuditAssumption DEF AuditInv, AuditTypes
<1>2. /\ new \in File /\ ~new.open /\ new.lines # <<>>
      /\ Last(new.lines) = IF live.open THEN Bad ELSE Line
      /\ ~live.open => new.lines = Append(live.lines, Line)
  <2> HIDE DEF live
  <2>1. /\ new \in File /\ new.open = FALSE /\ new.lines # <<>>
        /\ Last(new.lines) = IF live.open THEN Bad ELSE Line
        /\ ~live.open => new.lines = Append(live.lines, Line)
    BY <1>1, ExtendFile, ZenonT(60)
  <2> QED  BY <2>1, Zenon
<1>3. files' = [files EXCEPT ![0] = new]
  BY DEF AppendDone
<1> HIDE DEF new
<1>4. files' \in [0 .. Retain -> File] /\ files'[0] = new
  <2>1. files \in [0 .. Retain -> File]
    BY DEF AuditInv, AuditTypes
  <2>2. 0 \in 0 .. Retain
    BY AuditAssumption
  <2> QED  BY <1>2, <1>3, <2>1, <2>2
<1>5. AuditTypes' /\ EmitPlace'
  <2>1. chain' \in [seq : Int, prev : Int] /\ bytes' \in Nat
    BY DEF AuditInv, AuditTypes, AppendDone
  <2>2. AuditTypes'
    BY <1>4, <2>1 DEF AuditInv, AuditTypes, AppendDone, Rotating
  <2>3. EmitPlace'
    BY DEF EmitPlace, AppendDone, Rotating
  <2> QED  BY <2>2, <2>3
<1>6. Verifies(new) => Last(new.lines).hash = events
  BY <1>2, BadLast, LineType DEF AuditInv
<1>7. chain'.prev = events /\ running /\ handle /\ UNCHANGED <<torn, running, integrity, joined>>
  BY DEF AuditInv, EmitPlace, AppendDone
<1>8. Linked' /\ OpenIsTorn'
  BY <1>2, <1>4, <1>6, <1>7 DEF Linked, OpenIsTorn, Verifies, Last
<1>9. LiveVerifies'
  <2>1. CASE live.open \/ ~(live.lines = <<>> \/ Verifies(live))
    BY <2>1, <1>7 DEF AuditInv, OpenIsTorn, LiveVerifies
  <2>2. CASE ~live.open /\ (live.lines = <<>> \/ Verifies(live))
    <3>1. Verifies(new)
      BY <1>1, <1>2, <1>7, <2>2, VerifiesAppend, LineType DEF AuditInv, Linked
    <3> QED  BY <1>4, <3>1 DEF LiveVerifies, Verifies
  <2> QED  BY <2>1, <2>2
<1> QED  BY <1>5, <1>8, <1>9 DEF AuditInv

\* A damaged live file is without its last newline.
LEMMA DamagedLive ==
    ASSUME AuditInv,
           files' \in {[files EXCEPT ![0] = f] : f \in Damaged(files[0])}
    PROVE  files' \in [0 .. Retain -> File] /\ files'[0].open
<1>1. files[0] \in File /\ Line \in Record /\ Bad \in Record
  BY LineType, Constants, AuditAssumption DEF AuditInv, AuditTypes
<1>2. PICK f \in Damaged(files[0]) : files' = [files EXCEPT ![0] = f]
  OBVIOUS
<1>3. \A line \in {Bad, Line} : /\ Extend(files[0], line, TRUE) \in File
                                /\ Extend(files[0], line, TRUE).open = TRUE
  BY <1>1, ExtendFile
<1>4. f \in File /\ f.open
  BY <1>3 DEF Damaged
<1> QED  BY <1>2, <1>4, AuditAssumption DEF AuditInv, AuditTypes

LEMMA AppendFailsKeeps == AuditInv /\ AppendFails => AuditInv'
<1> SUFFICES ASSUME AuditInv, AppendFails PROVE AuditInv'
  OBVIOUS
<1>1. CASE UNCHANGED <<files, torn>>
  <2>1. AuditTypes' /\ EmitPlace'
    BY <1>1 DEF AuditInv, AuditTypes, EmitPlace, AppendFails, Rewound, Rotating
  <2> QED  BY <1>1, <2>1, LiveUntouched DEF AppendFails, Rewound
<1>2. CASE /\ files' \in {[files EXCEPT ![0] = f] : f \in Damaged(files[0])}
           /\ torn' = TRUE
  <2>1. files' \in [0 .. Retain -> File] /\ files'[0].open
    BY <1>2, DamagedLive
  <2>2. AuditTypes' /\ EmitPlace'
    BY <2>1 DEF AuditInv, AuditTypes, EmitPlace, AppendFails, Rewound, Rotating
  <2>3. integrity' = "error"
    BY DEF AppendFails
  <2> QED  BY <1>2, <2>1, <2>2, <2>3 DEF AuditInv, Linked, OpenIsTorn, LiveVerifies
<1> QED  BY <1>1, <1>2 DEF AppendFails

LEMMA AuditCrashKeeps == AuditInv /\ AuditCrash => AuditInv'
<1> SUFFICES ASSUME AuditInv, AuditCrash PROVE AuditInv'
  OBVIOUS
<1>1. CASE UNCHANGED <<files, torn>>
  <2>1. AuditTypes' /\ EmitPlace'
    BY <1>1 DEF AuditInv, AuditTypes, EmitPlace, AuditCrash, Rotating
  <2>2. ~running'
    BY DEF AuditCrash
  <2> QED
    BY <1>1, <2>1, <2>2 DEF AuditInv, AuditCrash, Linked, OpenIsTorn, LiveVerifies,
       Verifies
<1>2. CASE /\ files' \in {[files EXCEPT ![0] = f] : f \in Damaged(files[0])}
           /\ torn' = TRUE
  <2>1. files' \in [0 .. Retain -> File] /\ files'[0].open
    BY <1>2, DamagedLive
  <2>2. AuditTypes' /\ EmitPlace'
    BY <2>1 DEF AuditInv, AuditTypes, EmitPlace, AuditCrash, Rotating
  <2>3. ~running'
    BY DEF AuditCrash
  <2> QED  BY <1>2, <2>1, <2>2, <2>3 DEF AuditInv, Linked, OpenIsTorn, LiveVerifies
<1> QED  BY <1>1, <1>2 DEF AuditCrash

LEMMA AuditExitKeeps == AuditInv /\ AuditExit => AuditInv'
<1> SUFFICES ASSUME AuditInv, AuditExit PROVE AuditInv'
  OBVIOUS
<1>1. AuditTypes' /\ EmitPlace'
  BY DEF AuditInv, AuditTypes, EmitPlace, AuditExit, Rotating, auditHistory
<1> QED  BY <1>1, LiveUntouched DEF AuditExit, auditHistory

LEMMA AuditStartKeeps == AuditInv /\ AuditStart => AuditInv'
<1> SUFFICES ASSUME AuditInv, AuditStart PROVE AuditInv'
  OBVIOUS
<1> DEFINE live == files[0]
           corrupt == live.lines # <<>> /\ ~Verifies(live)
           kept == IF corrupt THEN Empty ELSE [live EXCEPT !.there = TRUE]
           last == Last(live.lines)
<1>1. live \in File
  BY AuditAssumption DEF AuditInv, AuditTypes
<1>2. CASE corrupt
  <2>1. files' = [files EXCEPT ![0] = Empty]
    BY <1>2 DEF AuditStart
  <2>2. files' \in [0 .. Retain -> File] /\ files'[0] = Empty
    BY <2>1, Constants, AuditAssumption DEF AuditInv, AuditTypes
  <2>3. bytes' = 0 /\ chain' = NewChain
    BY <1>2, Constants, EmptySeq DEF AuditStart
  <2>4. AuditTypes' /\ EmitPlace'
    BY <1>2, <2>2, <2>3 DEF AuditInv, AuditTypes, EmitPlace, AuditStart, Rotating,
       NewChain, Genesis
  <2> QED
    BY <2>2, <2>4, Constants DEF AuditInv, Linked, OpenIsTorn, LiveVerifies, Verifies
<1>3. CASE ~corrupt
  <2> DEFINE new == [live EXCEPT !.there = TRUE]
  <2>1. new \in File /\ new.lines = live.lines /\ new.open = live.open
    BY <1>1 DEF File
  <2>2. files' = [files EXCEPT ![0] = new]
    BY <1>3 DEF AuditStart
  <2>3. bytes' = Len(new.lines)
    BY <1>3 DEF AuditStart
  <2>4. chain' = IF new.lines = <<>> THEN NewChain
                 ELSE [seq |-> last.seq, prev |-> last.hash]
    BY <1>3 DEF AuditStart
  <2>5. /\ pc' = pc /\ events' = events /\ running' = TRUE /\ handle' = TRUE
        /\ ~running /\ UNCHANGED <<index, torn>>
    BY <1>3 DEF AuditStart
  <2>13. live.open => joined'
    <3>1. joined' = (~corrupt /\ live.open)
      BY DEF AuditStart
    <3> QED  BY <1>3, <3>1
  <2> HIDE DEF new, live
  <2>6. files' \in [0 .. Retain -> File] /\ files'[0] = new
    BY <2>1, <2>2, AuditAssumption DEF AuditInv, AuditTypes
  <2>7. live.lines # <<>> => last \in Record
    BY <1>1, EmptySeq, ElementOfSeq DEF File, Last
  <2>8. AuditTypes'
    <3>1. bytes' \in Nat
      BY <2>1, <2>3 DEF File
    <3>2. chain' \in [seq : Int, prev : Int]
      BY <2>1, <2>4, <2>7 DEF NewChain, Genesis, Record
    <3> QED  BY <2>5, <2>6, <3>1, <3>2 DEF AuditInv, AuditTypes
  <2>9. EmitPlace'
    BY <2>5 DEF AuditInv, EmitPlace, Rotating
  <2>10. OpenIsTorn'
    BY <2>1, <2>5, <2>6, <2>13 DEF AuditInv, OpenIsTorn, live
  <2>11. Linked'
    BY <2>1, <2>4, <2>6 DEF Linked, Verifies
  <2>12. LiveVerifies'
    BY <1>3, <2>1, <2>6 DEF LiveVerifies, Verifies
  <2> QED  BY <2>8, <2>9, <2>10, <2>11, <2>12 DEF AuditInv
<1> QED  BY <1>2, <1>3

-----------------------------------------------------------------------------
(* Sessions and the drain. *)

ProcessTypes ==
    /\ session \in [Sessions -> {"free", "admitted", "running"}]
    /\ shutdown \in {"no", "waiting", "stopping"}

\* The inductive invariant of the drain: the count is exact, nobody is admitted
\* any more but those that raced the drain, and wait_idle has seen the others go.
DrainInv ==
    /\ ProcessTypes
    /\ count = Cardinality(In("running"))
    /\ draining => In("admitted") \subseteq raced
    /\ shutdown # "no" => draining
    /\ shutdown = "stopping" /\ ~overdue => In("running") \subseteq raced

\* The sessions in a state are finitely many.
LEMMA InFinite ==
    ASSUME NEW state
    PROVE  IsFiniteSet(In(state)) /\ Cardinality(In(state)) \in Nat
<1>1. In(state) \in SUBSET Sessions
  BY DEF In
<1> QED  BY <1>1, SessionsAssumption, FS_Subset, FS_CardinalityType

LEMMA DrainInitially == Init => DrainInv
<1> SUFFICES ASSUME Init PROVE DrainInv
  OBVIOUS
<1>1. In("running") = {} /\ In("admitted") = {}
  BY DEF Init, NewProcess, In
<1> QED  BY <1>1, FS_EmptySet DEF Init, NewProcess, DrainInv, ProcessTypes

LEMMA DrainStep == DrainInv /\ [Next]_vars => DrainInv'
<1> SUFFICES ASSUME DrainInv, [Next]_vars PROVE DrainInv'
  OBVIOUS
<1> USE DEF DrainInv, ProcessTypes
<1>1. ASSUME NEW s \in Sessions, Admit(s) PROVE DrainInv'
  <2>1. In("running")' = In("running")
    BY <1>1 DEF Admit, In
  <2> QED  BY <1>1, <2>1 DEF Admit
<1>2. ASSUME NEW s \in Sessions, UpgradeFails(s) PROVE DrainInv'
  <2>1. In("running")' = In("running") /\ s \notin In("running")
    BY <1>2 DEF UpgradeFails, In
  <2>2. In("admitted")' = In("admitted") \ {s}
    BY <1>2 DEF UpgradeFails, In
  <2> QED  BY <1>2, <2>1, <2>2 DEF UpgradeFails
<1>3. ASSUME NEW s \in Sessions, RunSession(s) PROVE DrainInv'
  <2>1. In("running")' = In("running") \cup {s} /\ s \notin In("running")
    BY <1>3 DEF RunSession, In
  <2>2. In("admitted")' \subseteq In("admitted") /\ s \in In("admitted")
    BY <1>3 DEF RunSession, In
  <2>3. count' = Cardinality(In("running")')
    BY <1>3, <2>1, InFinite, FS_AddElement DEF RunSession, Counted
  <2> QED  BY <1>3, <2>1, <2>2, <2>3 DEF RunSession
<1>4. ASSUME NEW s \in Sessions, EndSession(s) PROVE DrainInv'
  <2>1. In("running")' = In("running") \ {s} /\ s \in In("running")
    BY <1>4 DEF EndSession, In
  <2>2. In("admitted")' = In("admitted") /\ s \notin In("admitted")
    BY <1>4 DEF EndSession, In
  <2>3. /\ IsFiniteSet(In("running")) /\ Cardinality(In("running")) \in Nat
        /\ Cardinality(In("running")) # 0
        /\ Cardinality(In("running") \ {s}) = Cardinality(In("running")) - 1
    BY <2>1, InFinite, FS_RemoveElement, FS_EmptySet
  <2>4. count' = Cardinality(In("running")')
    BY <1>4, <2>1, <2>3 DEF EndSession
  <2> QED  BY <1>4, <2>1, <2>2, <2>4 DEF EndSession
<1>5. CASE Drain
  BY <1>5 DEF Drain, BeginDrain, In
<1>6. CASE Signal
  BY <1>6 DEF Signal, BeginDrain, In
<1>7. CASE WaitIdle
  <2>1. In("running")' = In("running") /\ In("admitted")' = In("admitted")
    BY <1>7 DEF WaitIdle, In
  <2>2. count > 0 \/ In("running") = {}
    BY InFinite, FS_EmptySet
  <2>3. overdue' = (count > 0)
    BY <1>7 DEF WaitIdle
  <2>4. ~overdue' => In("running") = {}
    BY <2>2, <2>3
  <2> QED  BY <1>7, <2>1, <2>4 DEF WaitIdle
<1>8. CASE Gone
  <2>1. In("running")' = {} /\ In("admitted")' = {}
    BY <1>8 DEF Gone, In
  <2> QED  BY <1>8, <2>1, FS_EmptySet DEF Gone
<1>9. CASE UNCHANGED processVars
  BY <1>9 DEF processVars, In
<1> QED
  BY <1>1, <1>2, <1>3, <1>4, <1>5, <1>6, <1>7, <1>8, <1>9
     DEF Next, vars, Start, SessionEmits, EmitStep, Exit, Crash

-----------------------------------------------------------------------------
\* Every step of the process is a step of the audit log or leaves it alone.
LEMMA AuditStep == AuditInv /\ [Next]_vars => AuditInv'
<1> SUFFICES ASSUME AuditInv, [Next]_vars PROVE AuditInv'
  OBVIOUS
<1>1. CASE UNCHANGED auditVars
  BY <1>1 DEF auditVars, sinkVars, auditHistory, AuditInv, AuditTypes, Linked,
     OpenIsTorn, EmitPlace, LiveVerifies, Verifies
<1>2. \/ EmitStart \/ RotateFails \/ RotateRemove \/ RotateShift \/ RotateRename
      \/ RotateOpen \/ AppendDone \/ AppendFails \/ AuditCrash \/ AuditExit
      \/ AuditStart \/ UNCHANGED auditVars
  BY DEF Next, vars, Start, Admit, UpgradeFails, RunSession, SessionEmits,
     EndSession, EmitStep, Drain, Signal, WaitIdle, Exit, Crash
<1> QED
  BY <1>1, <1>2, EmitStartKeeps, RotateFailsKeeps, RotateRemoveKeeps,
     RotateShiftKeeps, RotateRenameKeeps, RotateOpenKeeps, AppendDoneKeeps,
     AppendFailsKeeps, AuditCrashKeeps, AuditExitKeeps, AuditStartKeeps

(***************************************************************************)
(* The live audit file verifies after any number of events, rotations,     *)
(* failed writes, crashes and restarts, unless a write was cut in the      *)
(* middle and the health says so or a restart resumed the file: the        *)
(* rewind of audit.rs keeps the chain in step with the file.               *)
(***************************************************************************)
THEOREM LiveFileVerifies == Spec => []LiveVerifies
<1>1. Init => AuditInv
  BY AuditInitially DEF Init
<1>2. AuditInv => LiveVerifies
  BY DEF AuditInv
<1> QED  BY <1>1, <1>2, AuditStep, PTL DEF Spec

(***************************************************************************)
(* For any number of sessions, a shutdown that ends before its deadline    *)
(* cuts off only sessions that were admitted and not yet counted when the  *)
(* drain began.                                                            *)
(***************************************************************************)
THEOREM DrainWaits == Spec => DrainWaitsForSessions
<1>1. DrainInv => (Exit /\ ~overdue => In("running") \subseteq raced)
  BY DEF DrainInv, Exit
<1> QED
  BY <1>1, DrainInitially, DrainStep, PTL DEF Spec, DrainWaitsForSessions

-----------------------------------------------------------------------------
(* What the kept files hold, and a rotation under way. *)

\* Where emit() has moved files and not yet opened the new one.
Moving == pc \in {"shift", "rename", "open"}

\* The place that a rotation has emptied: the files below it are yet to move.
Hole ==
    CASE pc = "shift" -> index + 1
      [] pc = "rename" -> 1
      [] OTHER -> 0

\* The rotated files, newest first, as the rotation under way will leave them.
Kept == [k \in 1 .. Retain |-> IF k <= Hole THEN files[k - 1] ELSE files[k]]

\* The numbers of a file's first and last records.
First(file) == file.lines[1].seq
Final(file) == First(file) + Len(file.lines) - 1

\* The file holds consecutive records of those written.
Holds(file, records) ==
    /\ file.lines # <<>>
    /\ First(file) \in 1 .. Len(records)
    /\ Final(file) <= Len(records)
    /\ \A i \in 1 .. Len(file.lines) : file.lines[i] = records[First(file) + i - 1]

\* The records are numbered, and each continues the one before it.
Chained(records) ==
    \A i \in 1 .. Len(records) :
        /\ records[i].seq = i /\ records[i].hash >= 0
        /\ i > 1 => records[i].prev = records[i - 1].hash

\* Each rotated file takes up where the one before it ends, and the oldest
\* starts with the first record unless an older one was removed.
Ordered(kept, records) ==
    /\ \A k \in 1 .. Retain : kept[k].there => Holds(kept[k], records)
    /\ \A k \in 1 .. Retain - 1 :
          /\ kept[k + 1].there =>
                kept[k].there /\ Final(kept[k + 1]) + 1 = First(kept[k])
          /\ kept[k].there /\ ~kept[k + 1].there => First(kept[k]) = 1

\* The live file takes up where the newest rotated one ends, to the last record.
Continues(live, newest, records) ==
    IF live.lines = <<>>
    THEN IF newest.there THEN Final(newest) = Len(records) ELSE records = <<>>
    ELSE /\ Holds(live, records)
         /\ Final(live) = Len(records)
         /\ First(live) = IF newest.there THEN Final(newest) + 1 ELSE 1

\* The last record is in the newest file.
Newest ==
    IF Moving THEN Kept[1].there /\ Final(Kept[1]) = Len(written)
              ELSE Continues(files[0], Kept[1], written)

\* The sink's copy of the state of the files.
Sink ==
    running =>
        /\ chain.seq = Len(written)
        /\ written # <<>> => chain.prev = Last(written).hash
        /\ ~Moving => bytes = Len(files[0].lines)
        /\ pc = "remove" => bytes > 0

\* A file that is not there is absent, an open one is there, and the place a
\* rotation has emptied is empty.
Places ==
    /\ written \in Seq(Record)
    /\ \A k \in 0 .. Retain : ~files[k].there => files[k] = Absent
    /\ handle => files[0].there
    /\ Moving => files[Hole] = Absent

\* Nothing that was written has been lost but the oldest files.
Whole == Chained(written) /\ Ordered(Kept, written) /\ Newest /\ Sink

\* The inductive invariant of the export, with AuditInv.  ExportsWhatWasWritten
\* speaks of the files at rest and says nothing of how far a rotation has come.
ExportInv == Places /\ (~torn /\ ~cut => Whole)

-----------------------------------------------------------------------------
\* Where emit() is, the rotated files are files.
LEMMA KeptType ==
    ASSUME AuditTypes
    PROVE  /\ Hole \in 0 .. Retain
           /\ Kept \in [1 .. Retain -> File]
           /\ \A k \in 1 .. Retain : Kept[k] = IF k <= Hole THEN files[k - 1] ELSE files[k]
           /\ 1 \in 1 .. Retain
<1>1. Hole \in 0 .. Retain /\ Retain \in Nat /\ 1 \in 1 .. Retain
  <2>1. Hole = index + 1 \/ Hole = 1 \/ Hole = 0
    BY Zenon DEF Hole
  <2> QED  BY <2>1, AuditAssumption DEF AuditTypes
<1>2. \A k \in 1 .. Retain : k - 1 \in 0 .. Retain /\ k \in 0 .. Retain
  BY <1>1
<1> QED  BY <1>1, <1>2 DEF Kept, AuditTypes

\* The lines of a file.
LEMMA LinesType ==
    ASSUME NEW f \in File
    PROVE  /\ f.lines \in Seq(Record)
           /\ Len(f.lines) \in Nat
           /\ f.lines # <<>> => Len(f.lines) >= 1 /\ f.lines[1] \in Record /\ First(f) \in Int
           /\ \A i \in 1 .. Len(f.lines) : f.lines[i] \in Record
<1>1. f.lines \in Seq(Record)
  BY DEF File
<1>2. Len(f.lines) \in Nat /\ \A i \in 1 .. Len(f.lines) : f.lines[i] \in Record
  BY <1>1, LenProperties, ElementOfSeq
<1>3. f.lines # <<>> => Len(f.lines) >= 1
  BY <1>1, <1>2, EmptySeq
<1> QED  BY <1>1, <1>2, <1>3 DEF First, Record

\* What a file holds of the records, it holds of more of them.
LEMMA HoldsMore ==
    ASSUME NEW f \in File, NEW w \in Seq(Record), NEW r \in Record, Holds(f, w)
    PROVE  Holds(f, Append(w, r))
<1>1. /\ Len(w) \in Nat /\ Len(Append(w, r)) = Len(w) + 1
      /\ \A i \in 1 .. Len(w) : Append(w, r)[i] = w[i]
  BY LenProperties
<1>2. f.lines # <<>> /\ Len(f.lines) \in Nat /\ First(f) \in Int
  BY LinesType DEF Holds
<1>3. First(f) \in 1 .. Len(w) + 1 /\ Final(f) <= Len(w) + 1
  BY <1>1, <1>2 DEF Holds, Final
<1>4. ASSUME NEW i \in 1 .. Len(f.lines)
      PROVE  f.lines[i] = Append(w, r)[First(f) + i - 1]
  <2>1. First(f) + i - 1 \in 1 .. Len(w)
    BY <1>1, <1>2 DEF Holds, Final
  <2> QED  BY <1>1, <2>1 DEF Holds
<1> QED  BY <1>1, <1>2, <1>3, <1>4 DEF Holds

\* A record is added to those written.
LEMMA ChainedMore ==
    ASSUME NEW w \in Seq(Record), NEW r \in Record, Chained(w),
           r.seq = Len(w) + 1, r.hash >= 0,
           w # <<>> => r.prev = Last(w).hash
    PROVE  Chained(Append(w, r))
<1>1. /\ Len(w) \in Nat /\ Len(Append(w, r)) = Len(w) + 1
      /\ \A i \in 1 .. Len(w) : Append(w, r)[i] = w[i]
      /\ Append(w, r)[Len(w) + 1] = r
      /\ Len(w) > 0 => w # <<>>
  BY LenProperties, EmptySeq
<1> SUFFICES ASSUME NEW i \in 1 .. Len(w) + 1
             PROVE  /\ Append(w, r)[i].seq = i /\ Append(w, r)[i].hash >= 0
                    /\ i > 1 => Append(w, r)[i].prev = Append(w, r)[i - 1].hash
  BY <1>1 DEF Chained
<1>2. CASE i \in 1 .. Len(w)
  <2>1. i > 1 => i - 1 \in 1 .. Len(w)
    BY <1>1
  <2> QED  BY <1>1, <1>2, <2>1 DEF Chained
<1>3. CASE i = Len(w) + 1
  <2>1. i > 1 => i - 1 \in 1 .. Len(w) /\ i - 1 = Len(w)
    BY <1>1, <1>3
  <2>2. i > 1 => Append(w, r)[i - 1] = Last(w)
    BY <1>1, <2>1 DEF Last
  <2> QED  BY <1>1, <1>3, <2>1, <2>2
<1> QED  BY <1>1, <1>2, <1>3

\* The rotated files hold of more records what they held.
LEMMA OrderedMore ==
    ASSUME NEW kept \in [1 .. Retain -> File], NEW w \in Seq(Record), NEW r \in Record,
           Ordered(kept, w)
    PROVE  Ordered(kept, Append(w, r))
<1>1. ASSUME NEW k \in 1 .. Retain, kept[k].there
      PROVE  Holds(kept[k], Append(w, r))
  BY <1>1, HoldsMore DEF Ordered
<1> QED  BY <1>1 DEF Ordered

\* The records that a live file holds go on with the one that is added to both.
LEMMA ContinuesMore ==
    ASSUME NEW f \in File, NEW g \in File, NEW n \in File, NEW w \in Seq(Record),
           NEW r \in Record, g.lines = Append(f.lines, r), r.seq = Len(w) + 1,
           Continues(f, n, w), n.there => Holds(n, w)
    PROVE  Continues(g, n, Append(w, r))
<1> DEFINE v == Append(w, r)
<1>1. /\ Len(w) \in Nat /\ Len(v) = Len(w) + 1
      /\ \A i \in 1 .. Len(w) : v[i] = w[i]
      /\ v[Len(w) + 1] = r
      /\ w = <<>> => Len(w) = 0
  BY LenProperties, EmptySeq
<1>2. /\ Len(f.lines) \in Nat /\ Len(g.lines) = Len(f.lines) + 1
      /\ \A i \in 1 .. Len(f.lines) : g.lines[i] = f.lines[i]
      /\ g.lines[Len(f.lines) + 1] = r
      /\ g.lines # <<>>
      /\ f.lines = <<>> => Len(f.lines) = 0
  <2>1. f.lines \in Seq(Record)
    BY LinesType
  <2>2. \A s \in Seq(Record) :
          /\ Len(s) \in Nat /\ Len(Append(s, r)) = Len(s) + 1
          /\ \A i \in 1 .. Len(s) : Append(s, r)[i] = s[i]
          /\ Append(s, r)[Len(s) + 1] = r
          /\ Append(s, r) # <<>>
          /\ s = <<>> => Len(s) = 0
    BY LenProperties, EmptySeq
  <2> QED  BY <2>1, <2>2, Zenon
<1> HIDE DEF v
<1>3. CASE f.lines = <<>>
  <2>1. First(g) = Len(w) + 1 /\ Final(g) = Len(w) + 1 /\ Len(g.lines) = 1
    BY <1>1, <1>2, <1>3 DEF First, Final
  <2>2. Holds(g, v)
    BY <1>1, <1>2, <1>3, <2>1 DEF Holds
  <2>3. First(g) = IF n.there THEN Final(n) + 1 ELSE 1
    BY <1>1, <1>3, <2>1 DEF Continues
  <2> QED  BY <1>1, <1>2, <2>1, <2>2, <2>3 DEF Continues, v
<1>4. CASE f.lines # <<>>
  <2>1. /\ Holds(f, w) /\ Final(f) = Len(w) /\ First(f) \in Int
        /\ First(f) = IF n.there THEN Final(n) + 1 ELSE 1
        /\ Len(f.lines) >= 1
    BY <1>4, LinesType DEF Continues
  <2>2. First(g) = First(f)
    BY <1>2, <2>1 DEF First
  <2>3. Final(g) = Len(w) + 1
    BY <1>1, <1>2, <2>1, <2>2 DEF Final
  <2>4. Holds(g, v)
    <3>1. First(g) \in 1 .. Len(v) /\ Final(g) <= Len(v)
      BY <1>1, <2>1, <2>2, <2>3 DEF Holds
    <3>2. ASSUME NEW i \in 1 .. Len(g.lines)
          PROVE  g.lines[i] = v[First(g) + i - 1]
      <4>1. CASE i \in 1 .. Len(f.lines)
        <5>2. First(f) >= 1 /\ First(f) + Len(f.lines) - 1 = Len(w)
          BY <1>1, <2>1 DEF Holds, Final
        <5>1. First(f) + i - 1 \in 1 .. Len(w)
          BY <1>1, <1>2, <2>1, <4>1, <5>2
        <5> QED  BY <1>1, <1>2, <2>1, <2>2, <4>1, <5>1 DEF Holds
      <4>2. CASE i = Len(f.lines) + 1
        <5>1. First(g) + i - 1 = Len(w) + 1
          BY <1>1, <1>2, <2>1, <2>2, <4>2 DEF Final
        <5> QED  BY <1>1, <1>2, <4>2, <5>1
      <4> QED  BY <1>2, <4>1, <4>2
    <3> QED  BY <1>2, <3>1, <3>2 DEF Holds
  <2> QED  BY <1>1, <1>2, <2>1, <2>2, <2>3, <2>4 DEF Continues, v
<1> QED  BY <1>3, <1>4

-----------------------------------------------------------------------------
(* ExportInv is inductive: the initial states and one lemma for each step. *)

LEMMA ExportInitially == AuditInit => ExportInv
<1> SUFFICES ASSUME AuditInit PROVE ExportInv
  OBVIOUS
<1>1. /\ written = <<>> /\ written \in Seq(Record) /\ Len(written) = 0
      /\ ~running /\ ~handle /\ pc = "idle"
      /\ \A k \in 0 .. Retain : files[k] = Absent
  BY EmptySeq DEF AuditInit
<1>2. ~Moving
  BY <1>1 DEF Moving
<1>3. Kept \in [1 .. Retain -> File] /\ 1 \in 1 .. Retain
  BY AuditInitially, KeptType DEF AuditInv
<1>4. \A k \in 1 .. Retain : Kept[k] = Absent
  <2>1. \A k \in 1 .. Retain : k - 1 \in 0 .. Retain /\ k \in 0 .. Retain
    BY AuditAssumption
  <2> QED  BY <1>1, <2>1 DEF Kept
<1>5. Places
  BY <1>1, <1>2 DEF Places
<1>6. Chained(written) /\ Sink
  BY <1>1 DEF Chained, Sink
<1>7. Ordered(Kept, written)
  <2>1. \A k \in 1 .. Retain : ~Kept[k].there
    BY <1>4, Constants
  <2>2. \A k \in 1 .. Retain - 1 : k \in 1 .. Retain /\ k + 1 \in 1 .. Retain
    BY AuditAssumption
  <2> QED  BY <2>1, <2>2, Zenon DEF Ordered
<1>8. Newest
  <2>1. files[0] = Absent /\ Kept[1] = Absent
    BY <1>1, <1>3, <1>4, AuditAssumption
  <2> QED  BY <1>1, <1>2, <2>1, Constants DEF Newest, Continues
<1> QED  BY <1>5, <1>6, <1>7, <1>8 DEF ExportInv, Whole

\* Away from a rotation the rotated files are where they are.
LEMMA KeptAtRest ==
    ASSUME ~Moving, AuditTypes
    PROVE  Hole = 0 /\ \A k \in 1 .. Retain : Kept[k] = files[k]
<1>1. Hole = 0
  BY DEF Moving, Hole
<1> QED  BY <1>1 DEF Kept

\* The same after a step.
LEMMA KeptAtRestNext ==
    ASSUME ~Moving', AuditTypes'
    PROVE  Hole' = 0 /\ \A k \in 1 .. Retain : Kept'[k] = files'[k]
<1>1. Hole' = 0
  BY DEF Moving, Hole
<1> QED  BY <1>1 DEF Kept

\* Functions on the places of the rotated files.
LEMMA SameKept ==
    ASSUME AuditTypes, AuditTypes', \A k \in 1 .. Retain : Kept'[k] = Kept[k]
    PROVE  Kept' = Kept
  BY DEF Kept

\* Steps that leave the files and the sink alone.
LEMMA ExportAtRest ==
    ASSUME AuditTypes, AuditTypes', ExportInv, ~Moving, ~Moving',
           UNCHANGED <<files, written, chain, bytes>>,
           running' => running, handle' => handle, torn => torn', cut => cut',
           pc' = "remove" => bytes > 0
    PROVE  ExportInv'
<1>1. Kept' = Kept
  <2>1. \A k \in 1 .. Retain : Kept'[k] = Kept[k]
    BY KeptAtRest, KeptAtRestNext
  <2> QED  BY <2>1, SameKept
<1>2. Places'
  BY DEF ExportInv, Places
<1>3. ~torn' /\ ~cut' => Whole
  BY DEF ExportInv
<1>4. Whole => Newest'
  BY <1>1 DEF Whole, Newest
<1>5. Whole => Sink'
  BY DEF Whole, Sink
<1>6. Whole => Whole'
  BY <1>1, <1>4, <1>5 DEF Whole
<1> QED  BY <1>2, <1>3, <1>6 DEF ExportInv

\* Steps after which a rotation was cut short or a write torn.
LEMMA ExportSpoilt ==
    ASSUME ExportInv, torn' \/ cut', ~Moving', UNCHANGED <<files, written>>,
           handle' => handle
    PROVE  ExportInv'
  BY DEF ExportInv, Places

LEMMA EmitStartExports == AuditInv /\ ExportInv /\ EmitStart => ExportInv'
<1> SUFFICES ASSUME AuditInv, ExportInv, EmitStart PROVE ExportInv'
  OBVIOUS
<1>1. AuditTypes /\ AuditTypes'
  BY EmitStartKeeps DEF AuditInv
<1>2. pc' \in {"remove", "append"} /\ (pc' = "remove" => bytes >= MaxBytes)
  BY DEF EmitStart
<1>3. pc' = "remove" => bytes > 0
  BY <1>1, <1>2, AuditAssumption DEF AuditTypes
<1>4. ~Moving /\ ~Moving' /\ (handle' => handle)
  BY <1>2 DEF Moving, EmitStart
<1> QED  BY <1>1, <1>3, <1>4, ExportAtRest DEF EmitStart

LEMMA RotateFailsExports == AuditInv /\ ExportInv /\ RotateFails => ExportInv'
<1> SUFFICES ASSUME AuditInv, ExportInv, RotateFails PROVE ExportInv'
  OBVIOUS
<1>1. cut' /\ ~Moving' /\ UNCHANGED <<files, written, handle>>
  BY DEF RotateFails, Moving
<1> QED  BY <1>1, ExportSpoilt

\* The oldest file goes, and every other is one place from where it will be.
LEMMA RotateRemoveExports == AuditInv /\ ExportInv /\ RotateRemove => ExportInv'
<1> SUFFICES ASSUME AuditInv, ExportInv, RotateRemove PROVE ExportInv'
  OBVIOUS
<1>1. /\ AuditTypes /\ AuditTypes' /\ running /\ ~Moving /\ Moving' /\ pc = "remove"
      /\ pc' = "shift" /\ Retain \in Nat /\ Retain >= 1
  BY RotateRemoveKeeps, AuditAssumption DEF AuditInv, EmitPlace, RotateRemove, Moving
<1>2. Hole' = Retain
  <2>1. index' = Retain - 1
    BY DEF RotateRemove
  <2>2. Hole' = index' + 1
    BY <1>1 DEF Hole
  <2> QED  BY <1>1, <2>1, <2>2
<1>3. /\ files'[Retain] = Absent
      /\ \A k \in 0 .. Retain : k # Retain => files'[k] = files[k]
  BY <1>1 DEF AuditTypes, RotateRemove, Oldest
<1>4. \A k \in 1 .. Retain : Kept'[k] = files[k - 1]
  <2> SUFFICES ASSUME NEW k \in 1 .. Retain PROVE Kept'[k] = files[k - 1]
    OBVIOUS
  <2>1. Kept'[k] = files'[k - 1]
    BY <1>1, <1>2 DEF Kept
  <2>2. k - 1 \in 0 .. Retain /\ k - 1 # Retain
    BY <1>1
  <2> QED  BY <1>3, <2>1, <2>2
<1>5. \A k \in 1 .. Retain : Kept[k] = files[k]
  BY <1>1, KeptAtRest
<1>6. Places'
  <2>1. UNCHANGED <<written, handle>>
    BY DEF RotateRemove, auditHistory
  <2>2. files'[0] = files[0]
    BY <1>1, <1>3
  <2>3. \A k \in 0 .. Retain : ~files'[k].there => files'[k] = Absent
    BY <1>3 DEF ExportInv, Places
  <2> QED  BY <1>2, <1>3, <2>1, <2>2, <2>3 DEF ExportInv, Places
<1>7. ASSUME Whole PROVE Whole'
  <2>1. UNCHANGED <<written, chain, running>>
    BY DEF RotateRemove, auditHistory
  <2>2. files[0] \in File /\ 0 \in 0 .. Retain /\ 1 \in 1 .. Retain
    BY <1>1 DEF AuditTypes
  <2>3. files[0].lines # <<>>
    <3>1. bytes > 0 /\ bytes = Len(files[0].lines)
      BY <1>1, <1>7 DEF Whole, Sink
    <3> QED  BY <3>1, EmptySeq
  <2>4. files[0].there
    BY <2>2, <2>3, Constants DEF ExportInv, Places
  <2>5. /\ Holds(files[0], written) /\ Final(files[0]) = Len(written)
        /\ First(files[0]) = IF Kept[1].there THEN Final(Kept[1]) + 1 ELSE 1
    BY <1>1, <1>7, <2>3 DEF Whole, Newest, Continues
  <2>6. ASSUME NEW k \in 1 .. Retain, Kept'[k].there
        PROVE  Holds(Kept'[k], written)
    <3>1. CASE k = 1
      BY <1>4, <2>5, <3>1
    <3>2. CASE k # 1
      <4>1. k - 1 \in 1 .. Retain
        BY <1>1, <3>2
      <4>2. Kept'[k] = Kept[k - 1]
        BY <1>4, <1>5, <4>1
      <4> QED  BY <1>7, <2>6, <4>1, <4>2 DEF Whole, Ordered
    <3> QED  BY <3>1, <3>2
  <2>7. ASSUME NEW k \in 1 .. Retain - 1
        PROVE  /\ Kept'[k + 1].there =>
                     Kept'[k].there /\ Final(Kept'[k + 1]) + 1 = First(Kept'[k])
               /\ Kept'[k].there /\ ~Kept'[k + 1].there => First(Kept'[k]) = 1
    <3>1. k \in 1 .. Retain /\ k + 1 \in 1 .. Retain /\ (k + 1) - 1 = k
      BY <1>1
    <3>2. Kept'[k + 1] = Kept[k] /\ Kept'[k] = files[k - 1]
      BY <1>4, <1>5, <3>1
    <3>3. CASE k = 1
      <4>1. Kept'[k] = files[0] /\ Kept'[k + 1] = Kept[1]
        BY <3>2, <3>3
      <4>2. Kept[1].there => Final(Kept[1]) + 1 = First(files[0])
        BY <2>5
      <4>3. ~Kept[1].there => First(files[0]) = 1
        BY <2>5
      <4> QED  BY <2>4, <4>1, <4>2, <4>3
    <3>4. CASE k # 1
      <4>1. k - 1 \in 1 .. Retain - 1 /\ k - 1 \in 1 .. Retain /\ (k - 1) + 1 = k
        BY <1>1, <3>4
      <4>2. Kept'[k] = Kept[k - 1]
        BY <1>5, <3>2, <4>1
      <4>3. /\ Kept[(k - 1) + 1].there =>
                  Kept[k - 1].there /\ Final(Kept[(k - 1) + 1]) + 1 = First(Kept[k - 1])
            /\ Kept[k - 1].there /\ ~Kept[(k - 1) + 1].there => First(Kept[k - 1]) = 1
        BY <1>7, <4>1 DEF Whole, Ordered
      <4>4. Kept[(k - 1) + 1] = Kept[k]
        BY <4>1
      <4> QED  BY <3>2, <4>2, <4>3, <4>4
    <3> QED  BY <3>3, <3>4
  <2>8. Ordered(Kept', written)
    BY <2>6, <2>7 DEF Ordered
  <2>9. Newest'
    <3>1. Kept'[1] = files[0]
      BY <1>4, <2>2
    <3> QED  BY <1>1, <2>1, <2>4, <2>5, <3>1 DEF Newest
  <2>10. Sink'
    BY <1>1, <1>7, <2>1 DEF Whole, Sink
  <2> QED  BY <1>7, <2>1, <2>8, <2>9, <2>10 DEF Whole
<1> QED  BY <1>6, <1>7 DEF ExportInv, RotateRemove, auditHistory

\* Steps of a rotation that move a file to the place they will leave it in.
LEMMA ExportMoves ==
    ASSUME AuditTypes, AuditTypes', ExportInv, Moving, Moving', running',
           \A k \in 1 .. Retain : Kept'[k] = Kept[k],
           UNCHANGED <<written, chain, torn, cut>>, running, Places'
    PROVE  ExportInv'
<1>1. Kept' = Kept
  BY SameKept
<1>2. Whole => Newest'
  BY <1>1 DEF Whole, Newest
<1>3. Whole => Sink'
  BY DEF Whole, Sink, Moving
<1>4. Whole => Whole'
  BY <1>1, <1>2, <1>3 DEF Whole
<1> QED  BY <1>4 DEF ExportInv

LEMMA RotateShiftExports == AuditInv /\ ExportInv /\ RotateShift => ExportInv'
<1> SUFFICES ASSUME AuditInv, ExportInv, RotateShift PROVE ExportInv'
  OBVIOUS
<1>1. /\ AuditTypes /\ AuditTypes' /\ running /\ running' /\ Moving /\ Moving'
      /\ Retain \in Nat /\ Retain >= 1 /\ index \in 0 .. Retain - 1 /\ pc = "shift"
      /\ UNCHANGED <<written, chain, torn, cut, handle>>
  BY RotateShiftKeeps, AuditAssumption
  DEF AuditInv, AuditTypes, EmitPlace, RotateShift, Moving, auditHistory
<1>2. Hole = index + 1 /\ files[index + 1] = Absent
  <2>1. Hole = index + 1
    BY <1>1 DEF Hole
  <2> QED  BY <1>1, <2>1 DEF ExportInv, Places
<1>3. /\ \A k \in 1 .. Retain : Kept[k] = IF k <= index + 1 THEN files[k - 1] ELSE files[k]
      /\ \A k \in 1 .. Retain : Kept'[k] = IF k <= Hole' THEN files'[k - 1] ELSE files'[k]
  BY <1>2 DEF Kept
<1>4. CASE index = 0
  <2>1. UNCHANGED files /\ Hole' = 1
    BY <1>4 DEF RotateShift, Hole
  <2>2. \A k \in 1 .. Retain : Kept'[k] = Kept[k]
    BY <1>3, <1>4, <2>1
  <2>3. Places'
    BY <1>1, <1>2, <1>4, <2>1 DEF ExportInv, Places
  <2> QED  BY <1>1, <2>2, <2>3, ExportMoves
<1>5. CASE index # 0
  <2>1. Hole' = index
    <3>1. pc' = "shift" /\ index' = index - 1
      BY <1>1, <1>5 DEF RotateShift
    <3>2. Hole' = index' + 1
      BY <3>1 DEF Hole
    <3> QED  BY <1>1, <3>1, <3>2
  <2>2. /\ files'[index + 1] = files[index] /\ files'[index] = Absent
        /\ \A k \in 0 .. Retain : k \notin {index, index + 1} => files'[k] = files[k]
    <3>1. CASE files[index].there
      <4> DEFINE f == [files EXCEPT ![index + 1] = files[index]]
      <4>1. files' = [f EXCEPT ![index] = Absent]
        BY <1>5, <3>1 DEF RotateShift
      <4>2. /\ f[index + 1] = files[index] /\ DOMAIN f = 0 .. Retain
            /\ \A k \in 0 .. Retain : k # index + 1 => f[k] = files[k]
        BY <1>1 DEF AuditTypes
      <4> HIDE DEF f
      <4>3. /\ index \in 0 .. Retain /\ index + 1 \in 0 .. Retain /\ index # index + 1
        BY <1>1
      <4> QED  BY <4>1, <4>2, <4>3
    <3>2. CASE ~files[index].there
      <4>1. UNCHANGED files
        BY <1>5, <3>2 DEF RotateShift
      <4>2. files[index] = Absent
        BY <1>1, <3>2 DEF ExportInv, Places
      <4> QED  BY <1>2, <4>1, <4>2
    <3> QED  BY <3>1, <3>2
  <2>3. ASSUME NEW k \in 1 .. Retain PROVE Kept'[k] = Kept[k]
    <3>1. CASE k <= index
      <4>1. k - 1 \in 0 .. Retain /\ k - 1 \notin {index, index + 1} /\ k <= index + 1
        BY <1>1, <3>1
      <4> QED  BY <1>3, <2>1, <2>2, <3>1, <4>1
    <3>2. CASE k = index + 1
      <4>1. ~(k <= index) /\ k <= index + 1 /\ k - 1 = index
        BY <1>1, <3>2
      <4> QED  BY <1>3, <2>1, <2>2, <3>2, <4>1
    <3>3. CASE k > index + 1
      <4>1. ~(k <= index) /\ ~(k <= index + 1) /\ k \in 0 .. Retain
            /\ k \notin {index, index + 1}
        BY <1>1, <3>3
      <4> QED  BY <1>3, <2>1, <2>2, <4>1
    <3> QED  BY <1>1, <3>1, <3>2, <3>3
  <2>4. Places'
    <3>1. files'[0] = files[0] /\ index \in 0 .. Retain /\ index + 1 \in 0 .. Retain
      BY <1>1, <1>5, <2>2
    <3>2. ASSUME NEW k \in 0 .. Retain, ~files'[k].there PROVE files'[k] = Absent
      <4>1. CASE k = index
        BY <2>2, <4>1
      <4>2. CASE k = index + 1
        BY <2>2, <3>1, <3>2, <4>2 DEF ExportInv, Places
      <4>3. CASE k \notin {index, index + 1}
        BY <2>2, <3>2, <4>3 DEF ExportInv, Places
      <4> QED  BY <4>1, <4>2, <4>3
    <3> QED  BY <1>1, <2>1, <2>2, <3>1, <3>2 DEF ExportInv, Places
  <2> QED  BY <1>1, <2>3, <2>4, ExportMoves
<1> QED  BY <1>4, <1>5

LEMMA RotateRenameExports == AuditInv /\ ExportInv /\ RotateRename => ExportInv'
<1> SUFFICES ASSUME AuditInv, ExportInv, RotateRename PROVE ExportInv'
  OBVIOUS
<1>1. CASE files[0].there
  <2>1. /\ AuditTypes /\ AuditTypes' /\ running /\ running' /\ Moving /\ Moving'
        /\ Retain \in Nat /\ Retain >= 1 /\ pc = "rename" /\ pc' = "open"
        /\ UNCHANGED <<written, chain, torn, cut, handle>> /\ ~handle
    BY <1>1, RotateRenameKeeps, AuditAssumption
    DEF AuditInv, EmitPlace, Rotating, RotateRename, Moving
  <2>2. Hole = 1 /\ Hole' = 0
    BY <2>1 DEF Hole
  <2>3. /\ files'[1] = files[0] /\ files'[0] = Absent
        /\ \A k \in 0 .. Retain : k \notin {0, 1} => files'[k] = files[k]
    <3> DEFINE f == [files EXCEPT ![1] = files[0]]
    <3>1. files' = [f EXCEPT ![0] = Absent]
      BY <1>1 DEF RotateRename
    <3>2. /\ f[1] = files[0] /\ DOMAIN f = 0 .. Retain
          /\ \A k \in 0 .. Retain : k # 1 => f[k] = files[k]
      BY <2>1 DEF AuditTypes
    <3> HIDE DEF f
    <3>3. 0 \in 0 .. Retain /\ 1 \in 0 .. Retain
      BY <2>1
    <3> QED  BY <3>1, <3>2, <3>3
  <2>4. ASSUME NEW k \in 1 .. Retain PROVE Kept'[k] = Kept[k]
    <3>1. /\ Kept[k] = IF k <= 1 THEN files[k - 1] ELSE files[k]
          /\ Kept'[k] = files'[k]
      BY <2>2 DEF Kept
    <3>2. CASE k = 1
      BY <2>3, <3>1, <3>2
    <3>3. CASE k # 1
      <4>1. ~(k <= 1) /\ k \in 0 .. Retain /\ k \notin {0, 1}
        BY <2>1, <3>3
      <4> QED  BY <2>3, <3>1, <4>1
    <3> QED  BY <3>2, <3>3
  <2>5. Places'
    <3>1. ASSUME NEW k \in 0 .. Retain, ~files'[k].there PROVE files'[k] = Absent
      <4>1. CASE k \in {0, 1}
        BY <1>1, <2>3, <3>1, <4>1
      <4>2. CASE k \notin {0, 1}
        BY <2>3, <3>1, <4>2 DEF ExportInv, Places
      <4> QED  BY <4>1, <4>2
    <3> QED  BY <2>1, <2>2, <2>3, <3>1 DEF ExportInv, Places
  <2> QED  BY <2>1, <2>4, <2>5, ExportMoves
<1>2. CASE ~files[0].there
  <2>1. cut' /\ ~Moving' /\ UNCHANGED <<files, written, handle>>
    BY <1>2 DEF RotateRename, Moving
  <2> QED  BY <2>1, ExportSpoilt
<1> QED  BY <1>1, <1>2

LEMMA RotateOpenExports == AuditInv /\ ExportInv /\ RotateOpen => ExportInv'
<1> SUFFICES ASSUME AuditInv, ExportInv, RotateOpen PROVE ExportInv'
  OBVIOUS
<1>1. /\ AuditTypes /\ AuditTypes' /\ running /\ running' /\ Moving /\ ~Moving'
      /\ Retain \in Nat /\ Retain >= 1 /\ pc = "open" /\ pc' = "append"
      /\ UNCHANGED <<written, chain, torn, cut>> /\ files[0] = Absent
  <2>1. AuditTypes /\ AuditTypes'
    BY RotateOpenKeeps DEF AuditInv
  <2>2. pc = "open" /\ pc' = "append" /\ UNCHANGED <<running, written, chain, torn, cut>>
    BY DEF RotateOpen, RotatedChain, auditHistory
  <2>3. running /\ files[0] = Absent /\ Moving /\ ~Moving'
    BY <2>2 DEF AuditInv, EmitPlace, Moving
  <2> QED  BY <2>1, <2>2, <2>3, AuditAssumption
<1>2. /\ files'[0] = Empty /\ \A k \in 0 .. Retain : k # 0 => files'[k] = files[k]
      /\ bytes' = 0
  <2>1. files' = [files EXCEPT ![0] = Empty] /\ bytes' = 0
    BY <1>1, Constants, EmptySeq DEF AuditTypes, RotateOpen
  <2> QED  BY <1>1, <2>1 DEF AuditTypes
<1>3. Kept' = Kept
  <2>1. Hole = 0 /\ Hole' = 0
    BY <1>1 DEF Hole
  <2>2. ASSUME NEW k \in 1 .. Retain PROVE Kept'[k] = Kept[k]
    <3>1. Kept[k] = files[k] /\ Kept'[k] = files'[k]
      BY <2>1 DEF Kept
    <3>2. k \in 0 .. Retain /\ k # 0
      BY <1>1
    <3> QED  BY <1>2, <3>1, <3>2
  <2> QED  BY <1>1, <2>2, SameKept
<1>4. Empty.there /\ Len(Empty.lines) = 0
  BY Constants, EmptySeq DEF Empty
<1>5. Places'
  BY <1>1, <1>2, <1>4 DEF ExportInv, Places
<1>6. Whole => Newest'
  BY <1>1, <1>2, <1>3, Constants DEF Whole, Newest, Continues
<1>7. Whole => Sink'
  BY <1>1, <1>2, <1>4 DEF Whole, Sink
<1>8. Whole => Whole'
  BY <1>1, <1>3, <1>6, <1>7 DEF Whole
<1> QED  BY <1>1, <1>5, <1>8 DEF ExportInv

LEMMA AppendDoneExports == AuditInv /\ ExportInv /\ AppendDone => ExportInv'
<1> SUFFICES ASSUME AuditInv, ExportInv, AppendDone PROVE ExportInv'
  OBVIOUS
<1> DEFINE live == files[0]
           new == Extend(live, Line, FALSE)
<1>1. /\ AuditTypes /\ AuditTypes' /\ running /\ ~Moving /\ ~Moving' /\ handle
      /\ UNCHANGED <<torn, cut, running, handle>> /\ Retain \in Nat /\ Retain >= 1
      /\ written \in Seq(Record) /\ live.there /\ pc' = "idle"
  BY AppendDoneKeeps, AuditAssumption
  DEF AuditInv, EmitPlace, AppendDone, Moving, ExportInv, Places
<1>2. live \in File /\ Line \in Record /\ Line.hash >= 0
      /\ Line.seq = chain.seq + 1 /\ Line.prev = chain.prev
  BY <1>1, LineType DEF AuditTypes, Line
<1>3. new \in File /\ new.there = live.there
      /\ (~live.open => new.lines = Append(live.lines, Line))
  <2> HIDE DEF live
  <2>1. new \in File /\ (~live.open => new.lines = Append(live.lines, Line))
    BY <1>2, ExtendFile, ZenonT(60)
  <2>2. new.there = live.there
    BY DEF Extend
  <2> QED  BY <2>1, <2>2
<1>4. files' = [files EXCEPT ![0] = new] /\ written' = Append(written, Line)
      /\ bytes' = bytes + 1 /\ chain' = [seq |-> chain.seq + 1, prev |-> events]
  BY DEF AppendDone
<1> HIDE DEF new
<1>5. files'[0] = new /\ \A k \in 0 .. Retain : k # 0 => files'[k] = files[k]
  BY <1>1, <1>4 DEF AuditTypes
<1>6. /\ written' \in Seq(Record) /\ Len(written') = Len(written) + 1
      /\ Len(written) \in Nat /\ Last(written') = Line
  <2>1. /\ written' \in Seq(Record) /\ Len(written') = Len(written) + 1
        /\ written'[Len(written) + 1] = Line /\ Len(written) \in Nat
    BY <1>1, <1>2, <1>4, LenProperties
  <2> QED  BY <2>1 DEF Last
<1>7. Places'
  <2>1. \A k \in 0 .. Retain : ~files'[k].there => files'[k] = Absent
    BY <1>1, <1>3, <1>5 DEF ExportInv, Places
  <2> QED  BY <1>1, <1>3, <1>5, <1>6, <2>1 DEF Places
<1>8. Kept' = Kept
  <2>1. ASSUME NEW k \in 1 .. Retain PROVE Kept'[k] = Kept[k]
    <3>1. k \in 0 .. Retain /\ k # 0
      BY <1>1
    <3> QED  BY <1>1, <1>5, <3>1, KeptAtRest, KeptAtRestNext
  <2> QED  BY <1>1, <2>1, SameKept
<1>9. ASSUME Whole, ~torn PROVE Whole'
  <2>1. ~live.open
    BY <1>9 DEF AuditInv, OpenIsTorn
  <2>2. chain.seq = Len(written) /\ (written # <<>> => chain.prev = Last(written).hash)
        /\ bytes = Len(live.lines)
    BY <1>1, <1>9 DEF Whole, Sink
  <2>3. Line.seq = Len(written) + 1 /\ (written # <<>> => Line.prev = Last(written).hash)
    BY <1>2, <2>2
  <2>4. Chained(written')
    BY <1>1, <1>2, <1>4, <1>9, <2>3, ChainedMore DEF Whole
  <2>5. Kept \in [1 .. Retain -> File] /\ 1 \in 1 .. Retain
    BY <1>1, KeptType
  <2>6. Ordered(Kept, written')
    BY <1>1, <1>2, <1>4, <1>9, <2>5, OrderedMore DEF Whole
  <2>7. Continues(new, Kept[1], written')
    <3>1. Kept[1] \in File /\ (Kept[1].there => Holds(Kept[1], written))
      BY <1>9, <2>5 DEF Whole, Ordered
    <3>2. Continues(live, Kept[1], written)
      BY <1>1, <1>9 DEF Whole, Newest
    <3> HIDE DEF live
    <3> QED  BY <1>1, <1>2, <1>3, <1>4, <2>1, <2>3, <3>1, <3>2, ContinuesMore
  <2>8. Newest'
    BY <1>1, <1>5, <1>8, <2>7 DEF Newest
  <2>9. Sink'
    <3>1. chain'.seq = Len(written') /\ chain'.prev = Last(written').hash
      BY <1>2, <1>4, <1>6, <2>2, LineType, <1>1
    <3>2. Len(new.lines) = Len(live.lines) + 1
      <4>1. live.lines \in Seq(Record)
        BY <1>2, LinesType
      <4>2. \A s \in Seq(Record) : Len(Append(s, Line)) = Len(s) + 1
        BY <1>2, LenProperties
      <4> QED  BY <1>3, <2>1, <4>1, <4>2
    <3> QED  BY <1>1, <1>4, <1>5, <2>2, <3>1, <3>2 DEF Sink
  <2> QED  BY <1>8, <2>4, <2>6, <2>8, <2>9 DEF Whole
<1> QED  BY <1>1, <1>7, <1>9 DEF ExportInv

\* There is a live file, or a place for one.
LEMMA FilesType ==
    ASSUME AuditTypes
    PROVE  files \in [0 .. Retain -> File] /\ 0 \in 0 .. Retain
  BY AuditAssumption DEF AuditTypes

\* A damaged live file is there if it was.
LEMMA DamagedPlaces ==
    ASSUME AuditTypes, ExportInv, handle, ~Moving', handle' => handle,
           written' = written, torn',
           files' \in {[files EXCEPT ![0] = f] : f \in Damaged(files[0])}
    PROVE  ExportInv'
<1>1. PICK f \in Damaged(files[0]) : files' = [files EXCEPT ![0] = f]
  OBVIOUS
<1>2. f.there = files[0].there
  BY DEF Damaged, Extend
<1>3. files'[0] = f /\ \A k \in 0 .. Retain : k # 0 => files'[k] = files[k]
  <2>1. files \in [0 .. Retain -> File] /\ 0 \in 0 .. Retain
    BY FilesType, Zenon
  <2> QED  BY <1>1, <2>1
<1>4. files[0].there
  BY DEF ExportInv, Places
<1>5. \A k \in 0 .. Retain : ~files'[k].there => files'[k] = Absent
  BY <1>2, <1>3, <1>4 DEF ExportInv, Places
<1> QED  BY <1>2, <1>3, <1>4, <1>5 DEF ExportInv, Places

LEMMA AppendFailsExports == AuditInv /\ ExportInv /\ AppendFails => ExportInv'
<1> SUFFICES ASSUME AuditInv, ExportInv, AppendFails PROVE ExportInv'
  OBVIOUS
<1>1. /\ AuditTypes /\ AuditTypes' /\ ~Moving /\ ~Moving' /\ pc' = "idle"
      /\ UNCHANGED <<running, handle, bytes, written, cut, chain>>
  BY AppendFailsKeeps DEF AuditInv, AppendFails, Rewound, Moving
<1>2. CASE UNCHANGED <<files, torn>>
  BY <1>1, <1>2, ExportAtRest
<1>3. CASE /\ files' \in {[files EXCEPT ![0] = f] : f \in Damaged(files[0])}
           /\ torn' = TRUE /\ handle
  BY <1>1, <1>3, DamagedPlaces
<1> QED  BY <1>2, <1>3 DEF AppendFails

LEMMA AuditCrashExports == AuditInv /\ ExportInv /\ AuditCrash => ExportInv'
<1> SUFFICES ASSUME AuditInv, ExportInv, AuditCrash PROVE ExportInv'
  OBVIOUS
<1>1. /\ AuditTypes /\ AuditTypes' /\ ~Moving' /\ pc' = "idle" /\ ~running' /\ ~handle'
      /\ UNCHANGED <<bytes, written, chain>>
      /\ (cut => cut') /\ (Moving => cut')
  BY AuditCrashKeeps DEF AuditInv, AuditCrash, Moving
<1>2. CASE UNCHANGED <<files, torn>> /\ ~Moving
  BY <1>1, <1>2, ExportAtRest
<1>3. CASE UNCHANGED <<files, torn>> /\ Moving
  BY <1>1, <1>3, ExportSpoilt
<1>4. CASE /\ files' \in {[files EXCEPT ![0] = f] : f \in Damaged(files[0])}
           /\ torn' = TRUE /\ handle
  BY <1>1, <1>4, DamagedPlaces
<1> QED  BY <1>2, <1>3, <1>4 DEF AuditCrash

LEMMA AuditExitExports == AuditInv /\ ExportInv /\ AuditExit => ExportInv'
<1> SUFFICES ASSUME AuditInv, ExportInv, AuditExit PROVE ExportInv'
  OBVIOUS
<1>1. /\ AuditTypes /\ AuditTypes' /\ ~Moving /\ ~Moving' /\ pc' = "idle" /\ ~handle'
      /\ ~running' /\ UNCHANGED <<files, bytes, written, chain, torn, cut>>
  BY AuditExitKeeps DEF AuditInv, AuditExit, Moving, auditHistory
<1> QED  BY <1>1, ExportAtRest

\* Start-up takes the end of the chain from the live file, or starts one where
\* nothing was ever written.
LEMMA AuditStartExports == AuditInv /\ ExportInv /\ AuditStart => ExportInv'
<1> SUFFICES ASSUME AuditInv, ExportInv, AuditStart PROVE ExportInv'
  OBVIOUS
<1> DEFINE live == files[0]
           corrupt == live.lines # <<>> /\ ~Verifies(live)
           new == IF corrupt THEN Empty ELSE [live EXCEPT !.there = TRUE]
<1>1. /\ AuditTypes /\ AuditTypes' /\ running' /\ ~running /\ handle'
      /\ UNCHANGED <<written, torn>> /\ (cut => cut') /\ (corrupt => cut')
      /\ (live.lines = <<>> /\ files[1].there => cut')
      /\ Retain \in Nat /\ Retain >= 1 /\ pc = "idle"
      /\ pc' \in {"idle", "append"}
  <2>1. pc = "idle"
    BY DEF AuditInv, EmitPlace, AuditStart
  <2>2. cut' = (cut \/ corrupt \/ (live.lines = <<>> /\ files[1].there))
    BY DEF AuditStart
  <2>3. /\ (cut => cut') /\ (corrupt => cut')
        /\ (live.lines = <<>> /\ files[1].there => cut')
    BY <2>2, Zenon
  <2>4. pc' \in {"idle", "append"}
    BY <2>1 DEF AuditStart
  <2>5. AuditTypes /\ AuditTypes'
    BY AuditStartKeeps DEF AuditInv
  <2>6. running' /\ ~running /\ handle' /\ UNCHANGED <<written, torn>>
    BY DEF AuditStart
  <2> QED  BY <2>1, <2>3, <2>4, <2>5, <2>6, AuditAssumption
<1>2. ~Moving /\ ~Moving'
  BY <1>1 DEF Moving
<1>3. files' = [files EXCEPT ![0] = new] /\ bytes' = Len(new.lines)
      /\ chain' = IF new.lines = <<>> THEN NewChain
                  ELSE [seq |-> Last(live.lines).seq, prev |-> Last(live.lines).hash]
  BY DEF AuditStart
<1>4. live \in File
  BY <1>1 DEF AuditTypes
<1>5. new.there /\ (~corrupt => new.lines = live.lines)
  <2>1. CASE corrupt
    BY <2>1 DEF Empty
  <2>2. CASE ~corrupt
    BY <1>4, <2>2 DEF File
  <2> QED  BY <2>1, <2>2
<1> HIDE DEF new
<1>6. files'[0] = new /\ \A k \in 0 .. Retain : k # 0 => files'[k] = files[k]
  BY <1>1, <1>3 DEF AuditTypes
<1>7. Places'
  <2>1. \A k \in 0 .. Retain : ~files'[k].there => files'[k] = Absent
    BY <1>5, <1>6 DEF ExportInv, Places
  <2> QED  BY <1>1, <1>2, <1>5, <1>6, <2>1 DEF ExportInv, Places
<1>8. Kept' = Kept
  <2>1. ASSUME NEW k \in 1 .. Retain PROVE Kept'[k] = Kept[k]
    <3>1. k \in 0 .. Retain /\ k # 0
      BY <1>1
    <3> QED  BY <1>1, <1>2, <1>6, <3>1, KeptAtRest, KeptAtRestNext
  <2> QED  BY <1>1, <2>1, SameKept
<1>9. ASSUME Whole, ~cut' PROVE Whole'
  <2>1. new.lines = live.lines /\ (live.lines = <<>> => ~files[1].there)
    BY <1>1, <1>5, <1>9
  <2>2. Kept[1] = files[1]
    BY <1>1, <1>2, KeptAtRest
  <2>3. Continues(live, Kept[1], written)
    BY <1>2, <1>9 DEF Whole, Newest
  <2>4. Newest'
    <3>1. Continues(new, Kept[1], written)
      BY <2>1, <2>3 DEF Continues, Holds, First, Final
    <3> QED  BY <1>1, <1>2, <1>6, <1>8, <3>1 DEF Newest
  <2>5. chain'.seq = Len(written) /\ (written # <<>> => chain'.prev = Last(written).hash)
    <3>1. CASE live.lines = <<>>
      <4>1. written = <<>>
        BY <2>1, <2>2, <2>3, <3>1 DEF Continues
      <4> QED  BY <1>3, <2>1, <3>1, <4>1, EmptySeq DEF NewChain
    <3>2. CASE live.lines # <<>>
      <4>1. Holds(live, written) /\ Final(live) = Len(written)
        BY <2>3, <3>2 DEF Continues
      <4>2. Len(live.lines) \in Nat /\ Len(live.lines) >= 1 /\ First(live) \in Int
        BY <1>4, <3>2, LinesType
      <4>3. Len(live.lines) \in 1 .. Len(live.lines)
        BY <4>2
      <4>4. Last(live.lines) = written[First(live) + Len(live.lines) - 1]
        BY <4>1, <4>3 DEF Holds, Last
      <4>5. Last(live.lines) = Last(written)
        BY <4>1, <4>4 DEF Final, Last
      <4>6. Last(written).seq = Len(written)
        <5>1. Len(written) \in 1 .. Len(written)
          BY <4>1, <4>2 DEF Holds, Final
        <5> QED  BY <1>9, <5>1 DEF Whole, Chained, Last
      <4> QED  BY <1>3, <2>1, <3>2, <4>5, <4>6
    <3> QED  BY <3>1, <3>2
  <2>6. Sink'
    BY <1>1, <1>3, <1>6, <2>5 DEF Sink
  <2> QED  BY <1>1, <1>8, <1>9, <2>4, <2>6 DEF Whole
<1> QED  BY <1>1, <1>7, <1>9 DEF ExportInv

\* Every step of the process keeps ExportInv.
LEMMA ExportStep == AuditInv /\ ExportInv /\ [Next]_vars => ExportInv'
<1> SUFFICES ASSUME AuditInv, ExportInv, [Next]_vars PROVE ExportInv'
  OBVIOUS
<1>1. CASE UNCHANGED auditVars
  <2>1. /\ UNCHANGED <<files, running, pc, index, chain, handle, bytes>>
        /\ UNCHANGED <<written, torn, cut>>
    BY <1>1 DEF auditVars, sinkVars, auditHistory
  <2>2. UNCHANGED <<Moving, Hole>>
    BY <2>1 DEF Moving, Hole
  <2>3. Kept' = Kept
    BY <2>1, <2>2 DEF Kept
  <2>4. Places' /\ Newest' = Newest /\ Sink' = Sink
    BY <2>1, <2>2, <2>3 DEF ExportInv, Places, Newest, Sink
  <2> QED  BY <2>1, <2>3, <2>4 DEF ExportInv, Whole
<1>2. \/ EmitStart \/ RotateFails \/ RotateRemove \/ RotateShift \/ RotateRename
      \/ RotateOpen \/ AppendDone \/ AppendFails \/ AuditCrash \/ AuditExit
      \/ AuditStart \/ UNCHANGED auditVars
  BY DEF Next, vars, Start, Admit, UpgradeFails, RunSession, SessionEmits,
     EndSession, EmitStep, Drain, Signal, WaitIdle, Exit, Crash
<1> QED
  BY <1>1, <1>2, EmitStartExports, RotateFailsExports, RotateRemoveExports,
     RotateShiftExports, RotateRenameExports, RotateOpenExports, AppendDoneExports,
     AppendFailsExports, AuditCrashExports, AuditExitExports, AuditStartExports

-----------------------------------------------------------------------------
(* What the kept files export. *)

\* A set of natural numbers has a least one.  The proofs over the files of a
\* stack are by contradiction with the least place at which they would fail.
LEMMA LeastNat ==
    ASSUME NEW T, T \subseteq Nat, T # {}
    PROVE  \E x \in T : \A y \in T : x <= y
<1> DEFINE R == OpToRel(<, Nat)
<1>1. \E x \in T : \A y \in T : ~ (<<y, x>> \in R)
  <2> HIDE DEF R
  <2>1. IsWellFoundedOn(R, Nat)
    BY NatLessThanWellFounded DEF R
  <2> QED BY <2>1, WFMin
<1>2. PICK x \in T : \A y \in T : ~ (<<y, x>> \in R)
  BY <1>1
<1>3. R = {ss \in Nat \X Nat : ss[1] < ss[2]}
  BY DEF OpToRel
<1>4. ASSUME NEW y \in T PROVE x <= y
  <2>1. <<y, x>> \in Nat \X Nat /\ <<y, x>>[1] = y /\ <<y, x>>[2] = x
    OBVIOUS
  <2>2. ~(y < x)
    BY <1>2, <1>3, <2>1
  <2> QED BY <2>2
<1> QED BY <1>4

\* Files, oldest first, that hold consecutive parts of the records.
Sections(stack, records) ==
    /\ Len(stack) >= 1
    /\ \A i \in 1 .. Len(stack) : Holds(stack[i], records)
    /\ \A i \in 1 .. Len(stack) - 1 : First(stack[i + 1]) = Final(stack[i]) + 1

\* The lines of a file are a part of the records.
LEMMA HeldPart ==
    ASSUME NEW f \in File, NEW w \in Seq(Record), Holds(f, w)
    PROVE  /\ First(f) \in 1 .. Len(w) /\ Final(f) \in First(f) .. Len(w)
           /\ f.lines = SubSeq(w, First(f), Final(f))
           /\ f.lines[1] = w[First(f)] /\ Last(f.lines) = w[Final(f)]
           /\ Len(f.lines) = Final(f) - First(f) + 1 /\ Len(w) \in Nat
<1> DEFINE a == First(f)
           b == Final(f)
<1>1. Len(f.lines) \in Nat /\ Len(f.lines) >= 1 /\ a \in Int /\ f.lines \in Seq(Record)
  BY LinesType DEF Holds
<1>2. /\ Len(w) \in Nat /\ a \in 1 .. Len(w) /\ b <= Len(w)
      /\ b = a + Len(f.lines) - 1
  BY LenProperties DEF Holds, Final
<1>3. a \in Nat /\ b \in a .. Len(w) /\ Len(f.lines) = b - a + 1
  BY <1>1, <1>2
<1>4. \A i \in 1 .. Len(f.lines) : f.lines[i] = w[a + i - 1]
  BY DEF Holds
<1> HIDE DEF a, b
<1>5. \A i \in a .. b : w[i] \in Record
  <2> SUFFICES ASSUME NEW i \in a .. b PROVE w[i] \in Record
    OBVIOUS
  <2>1. i \in 1 .. Len(w)
    BY <1>2, <1>3
  <2> QED  BY <2>1, ElementOfSeq
<1>6. /\ SubSeq(w, a, b) \in Seq(Record) /\ Len(SubSeq(w, a, b)) = b - a + 1
      /\ \A i \in 1 .. b - a + 1 : SubSeq(w, a, b)[i] = w[a + i - 1]
  <2>1. a \in Int /\ b \in Int /\ a <= b
    BY <1>2, <1>3
  <2> QED  BY <1>5, <2>1, SubSeqProperties
<1>7. f.lines = SubSeq(w, a, b)
  <2>1. Len(f.lines) = Len(SubSeq(w, a, b))
    BY <1>3, <1>6
  <2>2. \A i \in 1 .. Len(f.lines) : f.lines[i] = SubSeq(w, a, b)[i]
    BY <1>3, <1>4, <1>6
  <2> QED  BY <1>1, <1>6, <2>1, <2>2, SeqEqual
<1>8. f.lines[1] = w[a] /\ f.lines[Len(f.lines)] = w[b]
  <2>1. 1 \in 1 .. Len(f.lines) /\ Len(f.lines) \in 1 .. Len(f.lines)
        /\ a + 1 - 1 = a /\ a + Len(f.lines) - 1 = b
    BY <1>1, <1>2, <1>3
  <2> QED  BY <1>4, <2>1
<1> QED  BY <1>2, <1>3, <1>7, <1>8 DEF a, b, Last

\* Every one of them verifies, and they stitch.
LEMMA SectionsExport ==
    ASSUME NEW stack \in Seq(File), NEW w \in Seq(Record), Chained(w), Sections(stack, w)
    PROVE  Exports(stack)
<1>1. /\ Len(stack) \in Nat /\ DOMAIN stack = 1 .. Len(stack) /\ stack # <<>>
      /\ \A i \in 1 .. Len(stack) : stack[i] \in File
  BY LenProperties, ElementOfSeq, EmptySeq DEF Sections
<1>2. ASSUME NEW i \in 1 .. Len(stack) PROVE Verifies(stack[i])
  <2>1. stack[i] \in File /\ Holds(stack[i], w)
    BY <1>1 DEF Sections
  <2> DEFINE f == stack[i]
             a == First(f)
  <2>2. /\ f.lines \in Seq(Record) /\ Len(f.lines) \in Nat /\ f.lines # <<>>
        /\ DOMAIN f.lines = 1 .. Len(f.lines)
    BY <2>1, LinesType, LenProperties DEF Holds
  <2>3. a \in 1 .. Len(w) /\ a + Len(f.lines) - 1 <= Len(w) /\ Len(w) \in Nat
    BY <2>1, LenProperties DEF Holds, Final
  <2>4. \A j \in 1 .. Len(f.lines) : f.lines[j] = w[a + j - 1]
    BY <2>1 DEF Holds
  <2> HIDE DEF f, a
  <2>5. ASSUME NEW j \in 1 .. Len(f.lines)
        PROVE  /\ f.lines[j] # Bad
               /\ j > 1 => f.lines[j].prev = f.lines[j - 1].hash
    <3>1. a + j - 1 \in 1 .. Len(w)
      BY <2>2, <2>3
    <3>2. f.lines[j] # Bad
      <4>1. w[a + j - 1].hash >= 0
        BY <3>1 DEF Chained
      <4>2. Bad.hash = -1
        BY DEF Bad
      <4> QED  BY <2>4, <4>1, <4>2
    <3>3. ASSUME j > 1 PROVE f.lines[j].prev = f.lines[j - 1].hash
      <4>1. /\ j - 1 \in 1 .. Len(f.lines) /\ a + (j - 1) - 1 = (a + j - 1) - 1
            /\ a + j - 1 > 1
        BY <2>2, <2>3, <3>3
      <4>2. w[a + j - 1].prev = w[(a + j - 1) - 1].hash
        BY <3>1, <4>1 DEF Chained
      <4> QED  BY <2>4, <4>1, <4>2
    <3> QED  BY <3>2, <3>3
  <2>6. Verifies(f)
    BY <2>2, <2>5 DEF Verifies
  <2> QED  BY <2>6 DEF f
<1>3. ASSUME NEW i \in 1 .. Len(stack) - 1
      PROVE  Head(stack[i + 1].lines).prev = Last(stack[i].lines).hash
  <2>1. i \in 1 .. Len(stack) /\ i + 1 \in 1 .. Len(stack)
    BY <1>1
  <2>2. /\ stack[i] \in File /\ Holds(stack[i], w)
        /\ stack[i + 1] \in File /\ Holds(stack[i + 1], w)
        /\ First(stack[i + 1]) = Final(stack[i]) + 1
    BY <1>1, <2>1 DEF Sections
  <2>3. /\ Last(stack[i].lines) = w[Final(stack[i])] /\ Final(stack[i]) \in 1 .. Len(w)
        /\ Len(w) \in Nat
    BY <2>2, HeldPart
  <2>4. /\ stack[i + 1].lines[1] = w[First(stack[i + 1])]
        /\ First(stack[i + 1]) \in 1 .. Len(w)
    BY <2>2, HeldPart
  <2>5. Head(stack[i + 1].lines) = stack[i + 1].lines[1]
    BY <2>2, LinesType DEF Holds
  <2>6. /\ First(stack[i + 1]) > 1 /\ First(stack[i + 1]) - 1 = Final(stack[i])
    BY <2>2, <2>3
  <2> QED  BY <2>3, <2>4, <2>5, <2>6 DEF Chained
<1> QED  BY <1>1, <1>2, <1>3 DEF Exports, Stitches

\* None starts before the oldest.
LEMMA OldestFirst ==
    ASSUME NEW stack \in Seq(File), NEW w \in Seq(Record), Sections(stack, w),
           NEW i \in 1 .. Len(stack)
    PROVE  First(stack[1]) <= First(stack[i])
<1>1. /\ Len(stack) \in Nat /\ 1 \in 1 .. Len(stack)
      /\ \A j \in 1 .. Len(stack) : stack[j] \in File /\ Holds(stack[j], w)
  BY LenProperties, ElementOfSeq DEF Sections
<1>2. \A j \in 1 .. Len(stack) : /\ First(stack[j]) \in Int /\ Final(stack[j]) \in Int
                                 /\ First(stack[j]) <= Final(stack[j])
  <2> SUFFICES ASSUME NEW j \in 1 .. Len(stack)
               PROVE  /\ First(stack[j]) \in Int /\ Final(stack[j]) \in Int
                      /\ First(stack[j]) <= Final(stack[j])
    OBVIOUS
  <2>1. /\ First(stack[j]) \in 1 .. Len(w) /\ Final(stack[j]) \in First(stack[j]) .. Len(w)
        /\ Len(w) \in Nat
    BY <1>1, HeldPart
  <2> QED  BY <2>1
<1> DEFINE T == {j \in 1 .. Len(stack) : First(stack[j]) < First(stack[1])}
<1>3. SUFFICES ASSUME T # {} PROVE FALSE
  BY <1>1, <1>2
<1>4. T \subseteq Nat
  BY <1>1
<1>5. PICK j \in T : \A k \in T : j <= k
  <2> HIDE DEF T
  <2> QED  BY <1>3, <1>4, LeastNat
<1>6. j \in 1 .. Len(stack) /\ First(stack[j]) < First(stack[1]) /\ j # 1
  BY <1>1, <1>2
<1>7. /\ j - 1 \in 1 .. Len(stack) - 1 /\ j - 1 \in 1 .. Len(stack) /\ (j - 1) + 1 = j
      /\ ~(j <= j - 1)
  BY <1>1, <1>6
<1>8. j - 1 \notin T
  BY <1>5, <1>7
<1>9. ~(First(stack[j - 1]) < First(stack[1]))
  BY <1>7, <1>8
<1>10. First(stack[(j - 1) + 1]) = Final(stack[j - 1]) + 1
  BY <1>7 DEF Sections
<1>11. First(stack[j]) = Final(stack[j - 1]) + 1
  BY <1>7, <1>10
<1> QED  BY <1>1, <1>2, <1>6, <1>7, <1>9, <1>11

\* What FlattenSeq's local function is: g[i] is the first i sequences in one.
Joins(g, seqs) ==
    g = [i \in 1 .. Len(seqs) |-> IF i = 1 THEN seqs[i] ELSE g[i - 1] \o seqs[i]]

\* FlattenSeq takes the last value of that function.
LEMMA FlattenJoins ==
    ASSUME NEW seqs, Len(seqs) # 0
    PROVE  FlattenSeq(seqs) = (CHOOSE g : Joins(g, seqs))[Len(seqs)]
  BY Zenon DEF FlattenSeq, Joins

\* There is only one such function.
LEMMA JoinsOnce ==
    ASSUME NEW seqs, Len(seqs) \in Nat, NEW f, NEW g, Joins(f, seqs), Joins(g, seqs),
           NEW n \in 1 .. Len(seqs)
    PROVE  f[n] = g[n]
<1> DEFINE T == {i \in 1 .. Len(seqs) : f[i] # g[i]}
<1>1. SUFFICES ASSUME T # {} PROVE FALSE
  OBVIOUS
<1>2. T \subseteq Nat
  OBVIOUS
<1>3. PICK i \in T : \A k \in T : i <= k
  <2> HIDE DEF T
  <2> QED  BY <1>1, <1>2, LeastNat
<1>4. /\ \A k \in 1 .. Len(seqs) : f[k] = IF k = 1 THEN seqs[k] ELSE f[k - 1] \o seqs[k]
      /\ \A k \in 1 .. Len(seqs) : g[k] = IF k = 1 THEN seqs[k] ELSE g[k - 1] \o seqs[k]
  BY Zenon DEF Joins
<1>5. i \in 1 .. Len(seqs) /\ f[i] # g[i]
  OBVIOUS
<1>6. i # 1
  BY <1>4, <1>5
<1>7. i - 1 \in 1 .. Len(seqs) /\ ~(i <= i - 1)
  BY <1>5, <1>6
<1>8. f[i - 1] = g[i - 1]
  BY <1>3, <1>7
<1> QED  BY <1>4, <1>5, <1>6, <1>8

\* Consecutive parts of the records make one part of them.
LEMMA SectionsJoin ==
    ASSUME NEW stack \in Seq(File), NEW w \in Seq(Record), Sections(stack, w)
    PROVE  /\ First(stack[1]) \in 1 .. Len(w)
           /\ Exported(stack) = SubSeq(w, First(stack[1]), Final(stack[Len(stack)]))
<1> DEFINE n == Len(stack)
           seqs == [i \in DOMAIN stack |-> stack[i].lines]
           a == First(stack[1])
           f == [i \in 1 .. n |-> SubSeq(w, a, Final(stack[i]))]
<1>1. /\ n \in Nat /\ 1 \in 1 .. n /\ n \in 1 .. n /\ DOMAIN stack = 1 .. n
      /\ \A i \in 1 .. n : stack[i] \in File /\ Holds(stack[i], w)
  BY LenProperties, ElementOfSeq DEF Sections
<1>2. ASSUME NEW i \in 1 .. n
      PROVE  /\ First(stack[i]) \in 1 .. Len(w)
             /\ Final(stack[i]) \in First(stack[i]) .. Len(w) /\ Len(w) \in Nat
             /\ stack[i].lines = SubSeq(w, First(stack[i]), Final(stack[i]))
             /\ a <= First(stack[i])
  <2>1. stack[i] \in File /\ Holds(stack[i], w)
    BY <1>1
  <2> QED  BY <2>1, HeldPart, OldestFirst
<1>3. a \in 1 .. Len(w)
  BY <1>1, <1>2
<1>4. Len(seqs) = n /\ \A i \in 1 .. n : seqs[i] = stack[i].lines
  BY <1>1
<1> HIDE DEF seqs
<1>5. ASSUME NEW i \in 1 .. n
      PROVE  f[i] = IF i = 1 THEN seqs[i] ELSE f[i - 1] \o seqs[i]
  <2>1. CASE i = 1
    BY <1>1, <1>2, <1>4, <2>1
  <2>2. CASE i # 1
    <3>1. i - 1 \in 1 .. n /\ i - 1 \in 1 .. Len(stack) - 1 /\ (i - 1) + 1 = i
      BY <1>1, <2>2
    <3>2. First(stack[(i - 1) + 1]) = Final(stack[i - 1]) + 1
      BY <3>1 DEF Sections
    <3>3. First(stack[i]) = Final(stack[i - 1]) + 1
      BY <3>1, <3>2
    <3> DEFINE k == Final(stack[i - 1])
    <3>4. /\ First(stack[i - 1]) \in 1 .. Len(w) /\ k \in First(stack[i - 1]) .. Len(w)
          /\ a <= First(stack[i - 1]) /\ Len(w) \in Nat
      BY <1>2, <3>1
    <3>5. /\ Final(stack[i]) \in First(stack[i]) .. Len(w)
          /\ seqs[i] = SubSeq(w, k + 1, Final(stack[i]))
      BY <1>2, <1>4, <3>3
    <3>6. f[i - 1] = SubSeq(w, a, k) /\ f[i] = SubSeq(w, a, Final(stack[i]))
      BY <3>1
    <3> HIDE DEF f, k, a
    <3>7. /\ a \in 1 .. Len(w) + 1 /\ k \in a - 1 .. Len(w)
          /\ Final(stack[i]) \in k .. Len(w)
      BY <1>3, <3>3, <3>4, <3>5 DEF k
    <3>8. SubSeq(w, a, k) \o SubSeq(w, k + 1, Final(stack[i]))
             = SubSeq(w, a, Final(stack[i]))
      BY <3>7, ConcatAdjacentSubSeq
    <3> QED  BY <2>2, <3>5, <3>6, <3>8
  <2> QED  BY <2>1, <2>2
<1>6. Joins(f, seqs)
  <2>1. f = [i \in 1 .. n |-> f[i]]
    OBVIOUS
  <2> HIDE DEF f, n
  <2>2. f = [i \in 1 .. n |-> IF i = 1 THEN seqs[i] ELSE f[i - 1] \o seqs[i]]
    BY <1>5, <2>1
  <2> QED  BY <1>4, <2>2 DEF Joins
<1>7. Exported(stack) = FlattenSeq(seqs)
  BY DEF Exported, seqs
<1>8. f[n] = SubSeq(w, a, Final(stack[n]))
  BY <1>1
<1> HIDE DEF f, n
<1>9. Joins(CHOOSE g : Joins(g, seqs), seqs)
  BY <1>6, Zenon
<1>10. FlattenSeq(seqs) = (CHOOSE g : Joins(g, seqs))[n]
  BY <1>1, <1>4, FlattenJoins
<1>11. (CHOOSE g : Joins(g, seqs))[n] = f[n]
  BY <1>1, <1>4, <1>6, <1>9, JoinsOnce
<1> QED  BY <1>3, <1>7, <1>8, <1>10, <1>11 DEF n

\* The last records are a suffix of them.
LEMMA LastPart ==
    ASSUME NEW w \in Seq(Record), NEW a \in 1 .. Len(w)
    PROVE  IsSuffix(SubSeq(w, a, Len(w)), w)
<1> DEFINE s == SubSeq(w, a, Len(w))
           n == Len(w)
           m == n - a + 1
<1>1. /\ n \in Nat /\ a \in Nat /\ m \in Nat /\ m <= n
      /\ \A i \in 1 .. n : w[i] \in Record
  BY LenProperties, ElementOfSeq
<1>2. /\ s \in Seq(Record) /\ Len(s) = m
      /\ \A i \in 1 .. m : s[i] = w[a + i - 1]
  <2>1. \A i \in a .. n : w[i] \in Record
    BY <1>1
  <2>2. a \in Int /\ n \in Int /\ a <= n
    BY <1>1
  <2> QED  BY <2>1, <2>2, SubSeqProperties
<1> HIDE DEF s
<1> DEFINE rs == Reverse(s)
           rw == Reverse(w)
<1>3. /\ rs = [i \in 1 .. m |-> s[(m - i) + 1]]
      /\ rw = [i \in 1 .. n |-> w[(n - i) + 1]]
  BY <1>2 DEF Reverse
<1> HIDE DEF rs, rw
<1>4. Len(rs) = m /\ Len(rw) = n
  BY <1>1, <1>3
<1>5. ASSUME NEW i \in 1 .. m PROVE rs[i] = rw[i] /\ rw[i] \in Record
  <2>1. /\ (m - i) + 1 \in 1 .. m /\ a + ((m - i) + 1) - 1 = (n - i) + 1
        /\ i \in 1 .. n /\ (n - i) + 1 \in 1 .. n
    BY <1>1
  <2>2. rs[i] = s[(m - i) + 1] /\ rw[i] = w[(n - i) + 1]
    BY <1>3, <2>1
  <2>3. s[(m - i) + 1] = w[(n - i) + 1]
    BY <1>2, <2>1
  <2> QED  BY <1>1, <2>1, <2>2, <2>3
<1>6. SubSeq(rs, 1, m) = SubSeq(rw, 1, m)
  <2>1. 1 \in Int /\ m \in Int /\ m - 1 + 1 = m
    BY <1>1
  <2>2. \A i \in 1 .. m : rs[i] \in Record /\ rw[i] \in Record
    BY <1>5
  <2>3. /\ SubSeq(rs, 1, m) \in Seq(Record) /\ SubSeq(rw, 1, m) \in Seq(Record)
        /\ Len(SubSeq(rs, 1, m)) = Len(SubSeq(rw, 1, m))
        /\ Len(SubSeq(rs, 1, m)) = IF 1 <= m THEN m - 1 + 1 ELSE 0
        /\ \A i \in 1 .. m - 1 + 1 : SubSeq(rs, 1, m)[i] = rs[1 + i - 1]
        /\ \A i \in 1 .. m - 1 + 1 : SubSeq(rw, 1, m)[i] = rw[1 + i - 1]
    BY <2>1, <2>2, SubSeqProperties
  <2>4. ASSUME NEW i \in 1 .. Len(SubSeq(rs, 1, m))
        PROVE  SubSeq(rs, 1, m)[i] = SubSeq(rw, 1, m)[i]
    <3>1. i \in 1 .. m /\ i \in 1 .. m - 1 + 1 /\ 1 + i - 1 = i
      BY <1>1, <2>3
    <3> QED  BY <1>5, <2>3, <3>1
  <2> QED  BY <2>3, <2>4, SeqEqual
<1>7. IsPrefix(rs, rw)
  BY <1>1, <1>4, <1>6 DEF IsPrefix
<1> QED  BY <1>7 DEF IsSuffix, rs, rw, s

\* The number of rotated files before the first gap, and one.
Gap ==
    CHOOSE n \in 1 .. Retain + 1 :
        /\ n <= Retain => ~files[n].there
        /\ \A m \in 1 .. n - 1 : files[m].there

\* There is such a number.
LEMMA GapFound ==
    ASSUME AuditTypes
    PROVE  /\ Gap \in 1 .. Retain + 1
           /\ Gap <= Retain => ~files[Gap].there
           /\ \A m \in 1 .. Gap - 1 : files[m].there
<1> DEFINE T == {n \in 1 .. Retain + 1 : n <= Retain => ~files[n].there}
<1>1. Retain \in Nat
  BY AuditAssumption
<1>2. Retain + 1 \in T /\ T \subseteq Nat
  BY <1>1
<1>3. PICK n \in T : \A k \in T : n <= k
  <2> HIDE DEF T
  <2> QED  BY <1>2, LeastNat
<1>4. /\ n \in 1 .. Retain + 1
      /\ n <= Retain => ~files[n].there
      /\ \A m \in 1 .. n - 1 : files[m].there
  <2>1. n \in 1 .. Retain + 1 /\ (n <= Retain => ~files[n].there)
    OBVIOUS
  <2>2. ASSUME NEW m \in 1 .. n - 1, ~files[m].there PROVE FALSE
    <3>1. m \in 1 .. Retain + 1 /\ ~(n <= m)
      BY <1>1, <2>1
    <3> QED  BY <1>3, <2>2, <3>1
  <2> QED  BY <2>1, <2>2
<1> QED  BY <1>4, Zenon DEF Gap

\* At rest the files of the stack hold the records to the last, from the first
\* unless every place is taken.
LEMMA StackSections ==
    ASSUME AuditTypes, Places, Whole, ~Moving, files[0].lines # <<>>
    PROVE  /\ RotationStack \in Seq(File) /\ Sections(RotationStack, written)
           /\ Final(RotationStack[Len(RotationStack)]) = Len(written)
           /\ Len(RotationStack) <= Retain => First(RotationStack[1]) = 1
<1> DEFINE rotated == [i \in 1 .. Gap - 1 |-> files[Gap - i]]
           stack == RotationStack
<1>1. /\ Gap \in 1 .. Retain + 1 /\ Retain \in Nat /\ Retain >= 1
      /\ Gap <= Retain => ~files[Gap].there
      /\ \A m \in 1 .. Gap - 1 : files[m].there
      /\ \A k \in 0 .. Retain : files[k] \in File
      /\ \A k \in 1 .. Retain : Kept[k] = files[k]
  BY GapFound, KeptAtRest, AuditAssumption DEF AuditTypes
<1>2. files[0].there
  BY <1>1, Constants DEF Places
<1>3. stack = Append(rotated, files[0])
  BY <1>2 DEF RotationStack, Gap
<1>4. rotated \in Seq(File) /\ Len(rotated) = Gap - 1
  <2>1. Gap - 1 \in Nat
    BY <1>1
  <2>2. \A i \in 1 .. Gap - 1 : Gap - i \in 0 .. Retain
    BY <1>1
  <2>3. \A i \in 1 .. Gap - 1 : files[Gap - i] \in File
    BY <1>1, <2>2
  <2> QED  BY <2>1, <2>3
<1>5. /\ stack \in Seq(File) /\ Len(stack) = Gap
      /\ \A i \in 1 .. Gap : stack[i] = files[Gap - i]
  <2>1. files[0] \in File
    BY <1>1
  <2> HIDE DEF rotated, stack
  <2>2. /\ Append(rotated, files[0]) \in Seq(File)
        /\ Len(Append(rotated, files[0])) = (Gap - 1) + 1
        /\ \A i \in 1 .. Gap - 1 : Append(rotated, files[0])[i] = rotated[i]
        /\ Append(rotated, files[0])[(Gap - 1) + 1] = files[0]
    BY <1>4, <2>1, AppendProperties
  <2>3. (Gap - 1) + 1 = Gap /\ Gap - Gap = 0
    BY <1>1
  <2>4. \A i \in 1 .. Gap : i \in 1 .. Gap - 1 \/ i = Gap
    BY <1>1
  <2> QED  BY <1>3, <2>2, <2>3, <2>4 DEF rotated
<1> HIDE DEF rotated, stack
<1>6. /\ Holds(files[0], written) /\ Final(files[0]) = Len(written)
      /\ files[1].there => First(files[0]) = Final(files[1]) + 1
      /\ ~files[1].there => First(files[0]) = 1
  <2>1. Continues(files[0], Kept[1], written)
    BY DEF Whole, Newest
  <2>2. Kept[1] = files[1]
    BY <1>1
  <2> QED  BY <2>1, <2>2 DEF Continues
<1>7. /\ \A k \in 1 .. Retain : files[k].there => Holds(files[k], written)
      /\ \A k \in 1 .. Retain - 1 :
            /\ files[k + 1].there => Final(files[k + 1]) + 1 = First(files[k])
            /\ files[k].there /\ ~files[k + 1].there => First(files[k]) = 1
  <2>1. \A k \in 1 .. Retain - 1 : k \in 1 .. Retain /\ k + 1 \in 1 .. Retain
    BY <1>1
  <2> QED  BY <1>1, <2>1 DEF Whole, Ordered
<1>8. ASSUME NEW i \in 1 .. Gap PROVE Holds(stack[i], written)
  <2>1. CASE i = Gap
    BY <1>1, <1>5, <1>6, <2>1
  <2>2. CASE i # Gap
    <3>1. Gap - i \in 1 .. Gap - 1 /\ Gap - i \in 1 .. Retain
      BY <1>1, <2>2
    <3> QED  BY <1>1, <1>5, <1>7, <3>1
  <2> QED  BY <2>1, <2>2
<1>9. ASSUME NEW i \in 1 .. Gap - 1 PROVE First(stack[i + 1]) = Final(stack[i]) + 1
  <2>1. /\ i \in 1 .. Gap /\ i + 1 \in 1 .. Gap /\ Gap - i \in 1 .. Gap - 1
        /\ Gap - i = (Gap - (i + 1)) + 1
    BY <1>1
  <2>2. stack[i] = files[Gap - i] /\ stack[i + 1] = files[Gap - (i + 1)]
        /\ files[Gap - i].there
    BY <1>1, <1>5, <2>1
  <2>3. CASE Gap - (i + 1) = 0
    <3>1. Gap - i = 1
      BY <2>1, <2>3
    <3> QED  BY <1>6, <2>2, <2>3, <3>1
  <2>4. CASE Gap - (i + 1) # 0
    <3>1. Gap - (i + 1) \in 1 .. Retain - 1
      BY <1>1, <2>1, <2>4
    <3>2. Final(files[(Gap - (i + 1)) + 1]) + 1 = First(files[Gap - (i + 1)])
      BY <1>7, <2>1, <2>2, <3>1
    <3> QED  BY <2>1, <2>2, <3>2
  <2> QED  BY <2>3, <2>4
<1>10. Final(stack[Len(stack)]) = Len(written)
  BY <1>1, <1>5, <1>6
<1>11. ASSUME Gap <= Retain PROVE First(stack[1]) = 1
  <2>1. stack[1] = files[Gap - 1] /\ ~files[Gap].there
    BY <1>1, <1>5, <1>11
  <2>2. CASE Gap = 1
    BY <1>6, <2>1, <2>2
  <2>3. CASE Gap # 1
    <3>1. Gap - 1 \in 1 .. Retain - 1 /\ Gap - 1 \in 1 .. Gap - 1 /\ (Gap - 1) + 1 = Gap
      BY <1>1, <1>11, <2>3
    <3> QED  BY <1>1, <1>7, <2>1, <3>1
  <2> QED  BY <2>2, <2>3
<1>12. Sections(stack, written)
  BY <1>1, <1>5, <1>8, <1>9 DEF Sections
<1> QED  BY <1>5, <1>10, <1>11, <1>12 DEF stack

\* The two invariants give the property.
LEMMA ExportsHold == AuditInv /\ ExportInv => ExportsWhatWasWritten
<1> SUFFICES ASSUME AuditInv, ExportInv, pc = "idle", ~torn, ~cut, files[0].lines # <<>>
             PROVE  /\ Exports(RotationStack)
                    /\ IsSuffix(Exported(RotationStack), written)
                    /\ Len(RotationStack) <= Retain => Exported(RotationStack) = written
  BY DEF ExportsWhatWasWritten
<1> DEFINE stack == RotationStack
<1>1. /\ AuditTypes /\ Places /\ Whole /\ ~Moving
      /\ written \in Seq(Record) /\ Chained(written)
  BY DEF AuditInv, ExportInv, Moving, Whole, Places
<1>2. /\ stack \in Seq(File) /\ Sections(stack, written)
      /\ Final(stack[Len(stack)]) = Len(written)
      /\ Len(stack) <= Retain => First(stack[1]) = 1
  BY <1>1, StackSections
<1> HIDE DEF stack
<1>3. Exports(stack)
  BY <1>1, <1>2, SectionsExport
<1>4. /\ First(stack[1]) \in 1 .. Len(written)
      /\ Exported(stack) = SubSeq(written, First(stack[1]), Len(written))
  BY <1>1, <1>2, SectionsJoin
<1>5. IsSuffix(Exported(stack), written)
  BY <1>1, <1>4, LastPart
<1>6. Len(stack) <= Retain => Exported(stack) = written
  BY <1>1, <1>2, <1>4, SubSeqFull
<1> QED  BY <1>3, <1>5, <1>6 DEF stack

(***************************************************************************)
(* For any size and number of the kept files, and across any number of     *)
(* events, rotations, failed writes, crashes and restarts: unless a write  *)
(* was torn or a rotation cut short, the kept files verify, stitch and     *)
(* export the records last written, and all of them until the first file   *)
(* is removed.                                                             *)
(***************************************************************************)
THEOREM KeptFilesExport == Spec => []ExportsWhatWasWritten
<1>1. Init => AuditInv /\ ExportInv
  BY AuditInitially, ExportInitially DEF Init
<1>2. (AuditInv /\ ExportInv) /\ [Next]_vars => (AuditInv /\ ExportInv)'
  BY AuditStep, ExportStep
<1> QED  BY <1>1, <1>2, ExportsHold, PTL DEF Spec
=============================================================================
