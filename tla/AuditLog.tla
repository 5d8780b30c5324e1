------------------------------ MODULE AuditLog ------------------------------
(***************************************************************************)
(* The audit sink of the gateway in file mode, rclwebd/src/audit.rs: a     *)
(* hash-chained file of records, rotated when it is full.  emit() holds a  *)
(* mutex, so that one record is written at a time, but the process may die *)
(* between any two operations on the file system, and each of them may     *)
(* fail.                                                                   *)
(*                                                                         *)
(* SHA-256 is taken to be injective: the hash of a record is its number    *)
(* among the events, and prev the hash it continues.                       *)
(***************************************************************************)
EXTENDS Integers, Sequences, SequencesExt

CONSTANTS
    MaxBytes,   \* RCLWEBD_AUDIT_MAX_BYTES, in lines
    Retain,     \* RCLWEBD_AUDIT_RETAIN
    OnCorrupt,  \* what start-up does with a live file that fails to verify
    MaxEvents,  \* bound: events emitted
    MaxFaults   \* bound: failed operations and crashes

ASSUME AuditAssumption ==
    /\ MaxBytes \in Nat \ {0} /\ Retain \in 1 .. 64
    /\ OnCorrupt \in {"fail", "rotate"}
    /\ {MaxEvents, MaxFaults} \subseteq Nat

VARIABLES
    files,      \* [0 .. Retain -> file]: the live file and <name>.1 and on
    running,    \* the process has a sink
    pc,         \* where emit() is, or "idle"
    index,      \* of the rotated file that is renamed next
    chain,      \* [seq, prev] of FileState
    handle,     \* FileState.file is Some
    bytes,      \* FileState.bytes
    integrity,  \* ok or error
    events,     \* history: events emitted
    written,    \* history: records written in full, in order
    faults,     \* history: failures and crashes
    torn,       \* history: a write was cut in the middle
    cut,        \* history: a rotation was cut short, or a chain abandoned
    joined      \* history: start-up resumed a file without its last newline

sinkVars == <<pc, index, chain, handle, bytes, integrity>>
auditHistory == <<events, written, faults, torn, cut, joined>>
auditVars == <<files, running, sinkVars, auditHistory>>

Genesis == 0
NewChain == [seq |-> 0, prev |-> Genesis]

Absent == [there |-> FALSE, lines |-> <<>>, open |-> FALSE]
Empty == [there |-> TRUE, lines |-> <<>>, open |-> FALSE]
Bad == [hash |-> -1, seq |-> 0, prev |-> -1]     \* a line that is not a record

AuditInit ==
    /\ files = [i \in 0 .. Retain |-> Absent]
    /\ running = FALSE
    /\ pc = "idle"
    /\ index = 0
    /\ chain = NewChain
    /\ handle = FALSE
    /\ bytes = 0
    /\ integrity = "ok"
    /\ events = 0
    /\ written = <<>>
    /\ faults = 0
    /\ torn = FALSE
    /\ cut = FALSE
    /\ joined = FALSE

MayFault == faults < MaxFaults
Fault == MayFault /\ faults' = faults + 1

-----------------------------------------------------------------------------
(* verify_file, export_chain *)

\* Every line is a record and continues the one before it.
Verifies(file) ==
    /\ file.lines # <<>>
    /\ \A i \in DOMAIN file.lines :
          /\ file.lines[i] # Bad
          /\ i > 1 => file.lines[i].prev = file.lines[i - 1].hash

\* rotation_stack: oldest first, up to the first gap, the live file last.
RotationStack ==
    LET gap == CHOOSE n \in 1 .. Retain + 1 :
                  /\ n <= Retain => ~files[n].there
                  /\ \A m \in 1 .. n - 1 : files[m].there
        rotated == [i \in 1 .. gap - 1 |-> files[gap - i]]
    IN  IF files[0].there THEN Append(rotated, files[0]) ELSE rotated

Stitches(stack) ==
    \A i \in 1 .. Len(stack) - 1 :
        Head(stack[i + 1].lines).prev = Last(stack[i].lines).hash

Exports(stack) ==
    /\ stack # <<>>
    /\ \A i \in DOMAIN stack : Verifies(stack[i])
    /\ Stitches(stack)

Exported(stack) == FlattenSeq([i \in DOMAIN stack |-> stack[i].lines])

-----------------------------------------------------------------------------
(* emit *)

\* The sink is full: rotate before the record is written.
EmitStart ==
    /\ running /\ pc = "idle" /\ events < MaxEvents
    /\ events' = events + 1
    /\ pc' = IF bytes >= MaxBytes THEN "remove" ELSE "append"
    /\ handle' = (handle /\ bytes < MaxBytes)
    /\ UNCHANGED <<files, running, index, chain, bytes, integrity, written, faults,
                   torn, cut, joined>>

\* A step of rotate_live fails: emit goes on to append, without a file.
RotateFails ==
    /\ \/ pc = "remove" /\ files[Retain].there
       \/ pc = "shift" /\ index > 0 /\ files[index].there
       \/ pc \in {"rename", "open"}
    /\ Fault
    /\ pc' = "append"
    /\ integrity' = "error"
    /\ cut' = TRUE
    /\ UNCHANGED <<files, running, index, chain, handle, bytes, events, written, torn,
                   joined>>

\* rotation_path(live, retain)
Oldest == Retain

RotateRemove ==
    /\ pc = "remove"
    /\ files' = [files EXCEPT ![Oldest] = Absent]
    /\ pc' = "shift"
    /\ index' = Retain - 1
    /\ UNCHANGED <<running, chain, handle, bytes, integrity, auditHistory>>

\* The renames, from <name>.(retain - 1) down, of the files there are.
RotateShift ==
    /\ pc = "shift"
    /\ IF index = 0
       THEN pc' = "rename" /\ UNCHANGED <<files, index>>
       ELSE /\ files' = IF files[index].there
                        THEN [files EXCEPT ![index + 1] = files[index],
                                           ![index] = Absent]
                        ELSE files
            /\ index' = index - 1
            /\ UNCHANGED pc
    /\ UNCHANGED <<running, chain, handle, bytes, integrity, auditHistory>>

\* rename(live, <name>.1), which fails when there is no live file.
RotateRename ==
    /\ pc = "rename"
    /\ IF files[0].there
       THEN /\ files' = [files EXCEPT ![1] = files[0], ![0] = Absent]
            /\ pc' = "open"
            /\ UNCHANGED <<integrity, cut>>
       ELSE /\ integrity' = "error"
            /\ cut' = TRUE
            /\ pc' = "append"
            /\ UNCHANGED files
    /\ UNCHANGED <<running, index, chain, handle, bytes, events, written, faults,
                   torn, joined>>

\* Fault: the new live file starts a chain of its own.
RotatedChainNew == NewChain

\* The new live file continues the chain.
RotatedChain == chain

\* open_live creates the file.
RotateOpen ==
    /\ pc = "open"
    /\ files' = [files EXCEPT ![0] = IF @.there THEN @ ELSE Empty]
    /\ handle' = TRUE
    /\ bytes' = Len(files[0].lines)
    /\ chain' = RotatedChain
    /\ pc' = "append"
    /\ UNCHANGED <<running, index, integrity, auditHistory>>

\* next_line
Line == [hash |-> events, seq |-> chain.seq + 1, prev |-> chain.prev]

\* The text of a line added to a file: one that lacks its last newline takes
\* it into the line it has begun.
Extend(file, line, open) ==
    [there |-> file.there,
     lines |-> IF file.open THEN Append(Front(file.lines), Bad)
                            ELSE Append(file.lines, line),
     open |-> open]

\* append_line succeeds, and the chain advances.
AppendDone ==
    /\ pc = "append" /\ handle
    /\ files' = [files EXCEPT ![0] = Extend(@, Line, FALSE)]
    /\ chain' = [seq |-> chain.seq + 1, prev |-> events]
    /\ bytes' = bytes + 1
    /\ written' = Append(written, Line)
    /\ pc' = "idle"
    /\ UNCHANGED <<running, index, handle, integrity, events, faults, torn, cut,
                   joined>>

\* What a failing write leaves behind: nothing, a part of the line, or the line
\* without its newline, which writeln! writes by itself.
Damaged(file) == {Extend(file, Bad, TRUE), Extend(file, Line, TRUE)}

\* Fault: the chain is not rewound.
RewoundNot == [seq |-> chain.seq + 1, prev |-> events]

\* rewind_chain undoes next_line.
Rewound == chain

\* append_line fails, always so without a file: the error is counted and the
\* chain rewound.
AppendFails ==
    /\ pc = "append"
    /\ \/ /\ ~handle
          /\ UNCHANGED <<files, faults, torn>>
       \/ /\ handle /\ Fault
          /\ \/ UNCHANGED <<files, torn>>
             \/ /\ files' \in {[files EXCEPT ![0] = f] : f \in Damaged(files[0])}
                /\ torn' = TRUE
    /\ integrity' = "error"
    /\ chain' = Rewound
    /\ pc' = "idle"
    /\ UNCHANGED <<running, index, handle, bytes, events, written, cut, joined>>

-----------------------------------------------------------------------------
(* The process. *)

\* The process dies, perhaps in the middle of an emit.
AuditCrash ==
    /\ running /\ Fault
    /\ running' = FALSE
    /\ pc' = "idle"
    /\ handle' = FALSE
    /\ cut' = (cut \/ pc \in {"shift", "rename", "open"})
    /\ \/ UNCHANGED <<files, torn>>
       \/ /\ pc = "append" /\ handle
          /\ files' \in {[files EXCEPT ![0] = f] : f \in Damaged(files[0])}
          /\ torn' = TRUE
    /\ UNCHANGED <<index, chain, bytes, integrity, events, written, joined>>

\* The process ends by itself, between two records.
AuditExit ==
    /\ running /\ pc = "idle"
    /\ running' = FALSE
    /\ handle' = FALSE
    /\ UNCHANGED <<files, pc, index, chain, bytes, integrity, auditHistory>>

\* AuditSink::file: continue the live file, start a chain, or refuse to start.
\* A file moved aside is announced by a first record.
AuditStart ==
    LET live == files[0]
        corrupt == live.lines # <<>> /\ ~Verifies(live)
        last == Last(live.lines)
        kept == IF corrupt THEN Empty ELSE [live EXCEPT !.there = TRUE]
    IN  /\ ~running
        /\ corrupt => OnCorrupt = "rotate" /\ events < MaxEvents
        /\ running' = TRUE
        /\ files' = [files EXCEPT ![0] = kept]
        /\ handle' = TRUE
        /\ bytes' = Len(kept.lines)
        /\ chain' = IF kept.lines = <<>> THEN NewChain
                    ELSE [seq |-> last.seq, prev |-> last.hash]
        /\ integrity' = "ok"
        /\ IF corrupt THEN pc' = "append" /\ events' = events + 1
                      ELSE UNCHANGED <<pc, events>>
        /\ cut' = (cut \/ corrupt \/ (live.lines = <<>> /\ files[1].there))
        /\ joined' = (~corrupt /\ live.open)
        /\ UNCHANGED <<index, written, faults, torn>>

-----------------------------------------------------------------------------
\* The values of the variables.
AuditTypeOK ==
    /\ running \in BOOLEAN /\ handle \in BOOLEAN
    /\ pc \in {"idle", "remove", "shift", "rename", "open", "append"}
    /\ integrity \in {"ok", "error"}
    /\ \A i \in 0 .. Retain : ~files[i].there => files[i] = Absent
    /\ {bytes, index, events, faults} \subseteq Nat

(***************************************************************************)
(* audit.rs: the chain is rewound on a failed write "so a later successful *)
(* write still verifies".  The live file verifies after any failures that  *)
(* leave whole lines; and where a write was cut in the middle, the health  *)
(* that /configz shows is error.  (A crash may leave a record without its  *)
(* newline; the next process resumes the file, and its first record is     *)
(* joined to that line with the health still ok.)                          *)
(***************************************************************************)
LiveVerifies ==
    \/ files[0].lines = <<>>
    \/ Verifies(files[0])
    \/ torn /\ (~running \/ integrity = "error" \/ joined)

(***************************************************************************)
(* audit.rs: "The new live file continues the hash chain" so that          *)
(* export_chain "can concatenate rotations into one verifiable JSONL".     *)
(* Unless a write was torn, a rotation was cut short, or a start-up found  *)
(* a live file that does not verify or an empty one beside rotated files   *)
(* (it then begins a new chain), the kept files export, across restarts,   *)
(* as the records last written, a full rotation for every file that        *)
(* retention keeps.                                                        *)
(***************************************************************************)
ExportsWhatWasWritten ==
    pc = "idle" /\ ~torn /\ ~cut /\ files[0].lines # <<>> =>
        /\ Exports(RotationStack)
        /\ IsSuffix(Exported(RotationStack), written)
        /\ Len(RotationStack) <= Retain => Exported(RotationStack) = written
=============================================================================
