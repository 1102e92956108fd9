----------------------------- MODULE BufferStream -----------------------------
(***************************************************************************)
(* An output and an input stream over one buffer (stream/buffer_stream.c). *)
(*                                                                         *)
(* A stream has a size, a count of the bytes that have gone through it and *)
(* a pointer into the buffer, here an offset.  A writer and a reader move  *)
(* both; a reset takes the count back from the pointer.                    *)
(*                                                                         *)
(* The bytes of an earlier round stay in the buffer when it is used again; *)
(* all of them are the value Stale.                                        *)
(***************************************************************************)
EXTENDS Integers, Sequences, SequencesExt

CONSTANT BufferSize

ASSUME BufferAssumption == BufferSize \in Nat

VARIABLES
    memory,     \* the bytes of the buffer
    outstream,  \* output_stream_t
    instream    \* input_stream_t

streamVars == <<memory, outstream, instream>>

Stale == 256
Byte == 0..255

\* A pointer is always as far from the start of the buffer as the count says,
\* and no stream has left the buffer.
StreamTypeOK ==
    /\ memory \in [1..BufferSize -> Byte \cup {Stale}]
    /\ outstream.size = BufferSize
    /\ outstream.written \in 0..BufferSize
    /\ outstream.param = outstream.written
    /\ instream.size \in 0..BufferSize
    /\ instream.read \in 0..instream.size
    /\ instream.param = instream.read

\* buffer_stream_output_from_buffer and buffer_stream_input_from_buffer.
OutputFromBuffer == outstream = [param |-> 0, written |-> 0, size |-> BufferSize]
InputFromBuffer == instream = [param |-> 0, read |-> 0, size |-> BufferSize]

StreamInit ==
    /\ memory = [i \in 1..BufferSize |-> Stale]
    /\ OutputFromBuffer
    /\ InputFromBuffer

\* Faulty: the pointer stays where it is.
ForgetOutput == outstream' = [outstream EXCEPT !.written = 0]

ResetOutput ==
    outstream' = [outstream EXCEPT !.param = @ - outstream.written, !.written = 0]

\* Faulty: the size stays what it was.
RewindInput(new_size) ==
    instream' = [instream EXCEPT !.param = @ - instream.read, !.read = 0]

ResetInput(new_size) ==
    instream' = [instream EXCEPT !.param = @ - instream.read,
                                 !.size = new_size,
                                 !.read = 0]

\* Faulty: a byte too many.
FitsAlmost(bytes, chunk) ==
    outstream.written + Len(bytes) + Len(chunk) <= outstream.size + 1

Fits(bytes, chunk) ==
    outstream.written + Len(bytes) + Len(chunk) <= outstream.size

\* What the calls of the writer with these chunks store: all of them, or those
\* before the first that the buffer has no room for.
Stored(chunks) ==
    LET before(i) == FlattenSeq(SubSeq(chunks, 1, i - 1))
        failing == {i \in DOMAIN chunks : ~Fits(before(i), chunks[i])}
    IN  IF failing = {} THEN [ok |-> TRUE, bytes |-> FlattenSeq(chunks)]
        ELSE LET first == CHOOSE i \in failing : \A j \in failing : i <= j
             IN  [ok |-> FALSE, bytes |-> before(first)]

Write(bytes) ==
    LET from == outstream.param
        upto == from + Len(bytes)
    IN  /\ memory' = [i \in DOMAIN memory |->
                        IF i \in (from + 1)..upto THEN bytes[i - from] ELSE memory[i]]
        /\ outstream' = [outstream EXCEPT !.written = @ + Len(bytes), !.param = upto]

\* The bytes that the reader still gives.
Unread ==
    SubSeq(memory, instream.param + 1,
           instream.param + instream.size - instream.read)

Read(n) == instream' = [instream EXCEPT !.read = @ + n, !.param = @ + n]
===============================================================================
