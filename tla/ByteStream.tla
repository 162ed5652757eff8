----------------------------- MODULE ByteStream -----------------------------
(***************************************************************************)
(* What PQueueChannel promises: a first in, first out stream of bytes of   *)
(* bounded capacity.  Bytes are numbered in the order they are accepted.   *)
(***************************************************************************)
EXTENDS Naturals, Sequences

CONSTANT Capacity

VARIABLES isOpen,
          contents,     \* the bytes accepted and not yet read
          accepted,     \* the number of bytes accepted so far
          got           \* the bytes read so far

streamVars == <<isOpen, contents, accepted, got>>

StreamInit == /\ isOpen \in BOOLEAN
              /\ contents = <<>> /\ accepted = 0 /\ got = <<>>

Put == /\ isOpen
       /\ \E n \in 1 .. Capacity - Len(contents) :
            /\ contents' = contents \o [i \in 1 .. n |-> accepted + i]
            /\ accepted' = accepted + n
       /\ UNCHANGED <<isOpen, got>>

Take == /\ isOpen
        /\ \E n \in 1 .. Len(contents) :
             /\ got' = got \o SubSeq(contents, 1, n)
             /\ contents' = SubSeq(contents, n + 1, Len(contents))
        /\ UNCHANGED <<isOpen, accepted>>

\* What has not been read is lost when the stream is closed, or opened anew.
Close == isOpen' = FALSE /\ contents' = <<>> /\ UNCHANGED <<accepted, got>>

Open == isOpen' = TRUE /\ contents' = <<>> /\ UNCHANGED <<accepted, got>>

StreamNext == Put \/ Take \/ Close \/ Open

StreamSpec == StreamInit /\ [][StreamNext]_streamVars
=============================================================================
