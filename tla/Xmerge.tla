------------------------------- MODULE Xmerge -------------------------------
(***************************************************************************)
(* The system call xmerge (xmerge.c): concatenate input files into an      *)
(* output file.  Every call into the VFS may fail, a read or a write may   *)
(* be short.  The bytes of all inputs are numbered through, so the output  *)
(* is the sequence of the numbers written.  The caller's parameter block,  *)
(* which the call reads again and again, and the inputs do not change      *)
(* during the call; in particular the output is not one of the inputs.     *)
(***************************************************************************)
EXTENDS Integers, Sequences

CONSTANTS
    Lens,         \* the lengths of the input files, in bytes
    PAGE_SIZE,    \* size of the buffer
    IntBits       \* width of an int

ASSUME XmergeAssumption ==
    /\ Lens \in Seq(Nat) /\ PAGE_SIZE \in Nat \ {0} /\ IntBits \in Nat \ {0}

VARIABLES
    pc,           \* the next call
    i,            \* files finished by the loop
    pos,          \* bytes read of the current file
    buffer,       \* bytes in the buffer
    num_bytes,
    ofile_count,
    errno,
    open,         \* the open descriptors
    limit,        \* the address limit: "user" or "kernel"
    infiles,      \* whether the copied name array is allocated
    output,       \* what the output file has received
    reported,     \* *p->ofile_count, -1 while not written
    result,       \* the value returned, 0 while running
    short         \* history: some write took less than it was given

vars == <<pc, i, pos, buffer, num_bytes, ofile_count, errno, open, limit, infiles,
          output, reported, result, short>>

EFAULT == -14
Errors == {-2, -5}     \* any failure of open, read or write

\* Two's complement addition of ints.
Wrap(n) == ((n + 2 ^ (IntBits - 1)) % 2 ^ IntBits) - 2 ^ (IntBits - 1)

LenSum[k \in 0 .. Len(Lens)] == IF k = 0 THEN 0 ELSE LenSum[k - 1] + Lens[k]
Total == LenSum[Len(Lens)]
num_files == Len(Lens)

Init ==
    /\ pc = "copy_in" /\ i = 0 /\ pos = 0 /\ buffer = <<>>
    /\ num_bytes = 0 /\ ofile_count = 0 /\ errno = 0
    /\ open = {} /\ limit = "user" /\ infiles = FALSE
    /\ output = <<>> /\ reported = -1 /\ result = 0 /\ short = FALSE

\* kmalloc, then copy_from_user of the name array.  A NULL of kmalloc is not
\* looked at: the copy oopses.
CopyIn ==
    /\ pc = "copy_in"
    /\ \/ pc' = "open_out" /\ infiles' = TRUE /\ UNCHANGED errno
       \/ pc' = "quit" /\ infiles' = TRUE /\ errno' = EFAULT
       \/ pc' = "oops" /\ UNCHANGED <<infiles, errno>>
    /\ UNCHANGED <<i, pos, buffer, num_bytes, ofile_count, open, limit, output, reported, result, short>>

OpenOut ==
    /\ pc = "open_out"
    /\ \/ pc' = "next" /\ open' = {"out"} /\ limit' = "kernel" /\ UNCHANGED errno
       \/ pc' = "quit" /\ errno' \in Errors /\ UNCHANGED <<open, limit>>
    /\ UNCHANGED <<i, pos, buffer, num_bytes, ofile_count, infiles, output, reported, result, short>>

OpenIn ==
    /\ pc = "next" /\ i < num_files
    /\ \/ pc' = "read" /\ open' = open \cup {"in"} /\ pos' = 0 /\ UNCHANGED errno
       \/ pc' = "close1" /\ errno' \in Errors /\ UNCHANGED <<open, pos>>
    /\ UNCHANGED <<i, buffer, num_bytes, ofile_count, limit, infiles, output, reported, result, short>>

\* How read goes on: with n bytes, at the end of the file (`done` files more
\* are finished), or with an error.
ReadSome(n) ==
    /\ pos + n <= Lens[i + 1]
    /\ buffer' = [k \in 1 .. n |-> LenSum[i] + pos + k]
    /\ pos' = pos + n /\ pc' = "write"
    /\ UNCHANGED <<i, errno, open, ofile_count>>

ReadEnd(done) ==
    /\ open' = open \ {"in"} /\ ofile_count' = ofile_count + done /\ i' = i + done
    /\ pc' = "next"
    /\ UNCHANGED <<pos, buffer, errno>>

ReadError ==
    /\ errno' \in Errors /\ pc' = "close2"
    /\ UNCHANGED <<i, pos, buffer, open, ofile_count>>

ReadKeeps == UNCHANGED <<num_bytes, limit, infiles, output, reported, result, short>>

\* Mutant: an empty file is tried again.
Read_RetriesEmpty ==
    /\ pc = "read" /\ ReadKeeps
    /\ (\E n \in 1 .. PAGE_SIZE : ReadSome(n))
       \/ (pos = Lens[i + 1] /\ ReadEnd(IF pos = 0 THEN 0 ELSE 1)) \/ ReadError

\* End of file closes the input and counts it.
Read ==
    /\ pc = "read" /\ ReadKeeps
    /\ (\E n \in 1 .. PAGE_SIZE : ReadSome(n)) \/ (pos = Lens[i + 1] /\ ReadEnd(1)) \/ ReadError

\* A write of n bytes: the rest of the buffer is dropped, not written again.
WriteSome(n) ==
    /\ output' = output \o SubSeq(buffer, 1, n)
    /\ num_bytes' = Wrap(num_bytes + n)
    /\ short' = (short \/ n < Len(buffer))
    /\ pc' = "read"
    /\ UNCHANGED <<errno, buffer>>

WriteError ==
    /\ errno' \in Errors /\ pc' = "close2"
    /\ UNCHANGED <<num_bytes, output, short, buffer>>

WriteKeeps == UNCHANGED <<i, pos, ofile_count, open, limit, infiles, reported, result>>

\* Mutants: a short write counts as a whole one; a short write is repeated
\* from the start of the buffer.
Write_CountsRead ==
    /\ pc = "write" /\ WriteKeeps
    /\ \/ \E n \in 1 .. Len(buffer) :
             /\ output' = output \o SubSeq(buffer, 1, n)
             /\ num_bytes' = Wrap(num_bytes + Len(buffer))
             /\ short' = (short \/ n < Len(buffer))
             /\ pc' = "read" /\ UNCHANGED <<errno, buffer>>
       \/ WriteError
Write_Restarts ==
    /\ pc = "write" /\ WriteKeeps
    /\ \/ WriteSome(Len(buffer))
       \/ \E n \in 1 .. Len(buffer) - 1 :
             /\ output' = output \o SubSeq(buffer, 1, n) \o buffer
             /\ num_bytes' = Wrap(num_bytes + n + Len(buffer))
             /\ short' = TRUE /\ pc' = "read" /\ UNCHANGED <<errno, buffer>>
       \/ WriteError

Write ==
    /\ pc = "write" /\ WriteKeeps
    /\ (\E n \in 1 .. Len(buffer) : WriteSome(n)) \/ WriteError

\* copy_to_user's result is ignored.
copy_to_user == reported' \in {ofile_count, reported}

Succeed ==
    /\ pc = "next" /\ i = num_files
    /\ limit' = "user" /\ open' = open \ {"out"} /\ infiles' = FALSE
    /\ copy_to_user
    /\ result' = num_bytes /\ pc' = "returned"
    /\ UNCHANGED <<i, pos, buffer, num_bytes, ofile_count, errno, output, short>>

\* Mutant: the label of a failed read or write leaves the input open.
Fail_LeavesInput ==
    /\ pc \in {"close2", "close1", "quit"}
    /\ open' = IF pc = "quit" THEN open ELSE open \ {"out"}
    /\ limit' = IF pc = "quit" THEN limit ELSE "user"
    /\ IF pc = "quit" THEN UNCHANGED reported ELSE copy_to_user
    /\ infiles' = FALSE /\ result' = errno /\ pc' = "returned"
    /\ UNCHANGED <<i, pos, buffer, num_bytes, ofile_count, errno, output, short>>

\* The three exit labels, each falling through to the next.  The address limit
\* is still the kernel's when copy_to_user runs; the user's pointer passes both.
Fail ==
    /\ pc \in {"close2", "close1", "quit"}
    /\ open' = CASE pc = "close2" -> open \ {"in", "out"}
                 [] pc = "close1" -> open \ {"out"}
                 [] OTHER -> open
    /\ limit' = IF pc = "quit" THEN limit ELSE "user"
    /\ IF pc = "quit" THEN UNCHANGED reported ELSE copy_to_user
    /\ infiles' = FALSE /\ result' = errno /\ pc' = "returned"
    /\ UNCHANGED <<i, pos, buffer, num_bytes, ofile_count, errno, output, short>>

Returned == pc \in {"returned", "oops"} /\ UNCHANGED vars

Next == CopyIn \/ OpenOut \/ OpenIn \/ Read \/ Write \/ Succeed \/ Fail \/ Returned

Spec == Init /\ [][Next]_vars

\* The calling thread runs.
FairSpec == Spec /\ WF_vars(Next)

-----------------------------------------------------------------------------
\* Properties.

TypeOK ==
    /\ pc \in {"copy_in", "open_out", "next", "read", "write", "close2", "close1", "quit", "returned",
               "oops"}
    /\ i \in 0 .. num_files /\ pos \in 0 .. Total /\ ofile_count \in 0 .. num_files
    /\ buffer \in Seq(1 .. Total) /\ output \in Seq(1 .. Total)
    /\ num_bytes \in -(2 ^ (IntBits - 1)) .. 2 ^ (IntBits - 1) - 1
    /\ errno \in Errors \cup {0, EFAULT} /\ open \subseteq {"in", "out"}
    /\ limit \in {"user", "kernel"} /\ infiles \in BOOLEAN
    /\ reported \in -1 .. num_files /\ result \in Int /\ short \in BOOLEAN

\* Whichever label the call leaves by, both files are closed, the address
\* limit is the caller's again and the name array is freed.
NothingLeaks == pc = "returned" => open = {} /\ limit = "user" /\ ~infiles

\* The bytes reach the output in the order of the inputs, none of them twice.
\* Until a write is short the output is at every moment an initial part of the
\* concatenation, and all of it once the call has returned without error.
Concatenates ==
    /\ \A j, k \in 1 .. Len(output) : j < k => output[j] < output[k]
    /\ ~short =>
        /\ output = [k \in 1 .. Len(output) |-> k]
        /\ pc = "returned" /\ errno = 0 => Len(output) = Total

\* A call that met no error returns the number of bytes that reached the output
\* ("Return the number of bytes concatenated") as long as an int can hold it;
\* beyond that the sum has wrapped and reads as an error.  The count given to
\* the caller is of files read to their end, also when a later file failed.
ReportsTruly ==
    /\ pc = "returned" /\ errno = 0 /\ Len(output) < 2 ^ (IntBits - 1) => result = Len(output)
    /\ reported # -1 =>
        /\ reported = ofile_count
        /\ ~short => LenSum[reported] <= Len(output)

\* The call comes to its end.
Terminates == <>(pc \in {"returned", "oops"})

=============================================================================
