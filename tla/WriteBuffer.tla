---------------------------- MODULE WriteBuffer ----------------------------
(***************************************************************************)
(* The growing output buffer of an answer (wpcp_cbor.c): a chain of        *)
(* chunks, the first one inside the buffer itself.  A write goes behind    *)
(* the last one as a whole; when it does not fit a further chunk is        *)
(* allocated for it.  Without memory for that the buffer is broken for     *)
(* good, and only counts what would have been written.                     *)
(*                                                                         *)
(* What is written is a record of the user of the buffer.                  *)
(***************************************************************************)
EXTENDS Integers, Sequences, SequencesExt

CONSTANTS
    FirstSize,  \* sizeof(first_item.data), 32 in the code
    ChunkSize   \* the least size of a further chunk, 256 in the code

ASSUME WriteBufferAssumption ==
    FirstSize \in Nat \ {0} /\ ChunkSize \in Nat \ {0}

(* last_item is NULL when broken; else it is the last of the chunks.       *)
EmptyBuffer ==
    [chunks    |-> << [allocated_size |-> FirstSize, used_size |-> 0, data |-> <<>>] >>,
     used_size |-> 0,
     broken    |-> FALSE]

(* Mutant: room is left for one byte more than there is.                   *)
HasSpace_OneMore(chunk, size) == size <= chunk.allocated_size - chunk.used_size + 1

HasSpace(chunk, size) == size <= chunk.allocated_size - chunk.used_size

Filled(chunk, write, size) ==
    [allocated_size |-> chunk.allocated_size,
     used_size      |-> chunk.used_size + size,
     data           |-> Append(chunk.data, write)]

NewChunk(write, size) ==
    [allocated_size |-> IF size > ChunkSize THEN size ELSE ChunkSize,
     used_size      |-> size,
     data           |-> <<write>>]

(* ensure_space, and the copying behind it.  memory tells whether a chunk  *)
(* can be had.                                                             *)
Written(buffer, write, size, memory) ==
    LET last == Last(buffer.chunks)
        room == HasSpace(last, size)
    IN  IF buffer.broken THEN buffer
        ELSE [chunks    |-> CASE room -> Front(buffer.chunks) \o <<Filled(last, write, size)>>
                              [] ~room /\ memory -> Append(buffer.chunks, NewChunk(write, size))
                              [] OTHER -> buffer.chunks,
              used_size |-> buffer.used_size + size,
              broken    |-> ~room /\ ~memory]

(* What wpcp_cbor_write_write_buffer copies into a message: nothing when   *)
(* the buffer is broken.                                                   *)
Content(buffer) ==
    LET all[i \in 0..Len(buffer.chunks)] ==
          IF i = 0 THEN <<>> ELSE all[i - 1] \o buffer.chunks[i].data
    IN IF buffer.broken THEN <<>> ELSE all[Len(buffer.chunks)]

(* How many bytes that are.                                                *)
BytesCopied(buffer) ==
    LET sum[i \in 0..Len(buffer.chunks)] ==
          IF i = 0 THEN 0 ELSE sum[i - 1] + buffer.chunks[i].used_size
    IN IF buffer.broken THEN 0 ELSE sum[Len(buffer.chunks)]

(* The blocks of the heap that wpcp_cbor_write_buffer_clear frees.         *)
Chained(buffer) == Len(buffer.chunks) - 1
=============================================================================
