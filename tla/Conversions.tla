---------------------------- MODULE Conversions ----------------------------
(***************************************************************************)
(* What the tracker makes of a text, of a file and of a list of peers, one *)
(* at a time: the texts of its pages and links (Reading), the files it     *)
(* writes and reads (Bencode), and the tables of peers on a stats page     *)
(* (PeerTables).                                                           *)
(***************************************************************************)
EXTENDS PeerTables, Bencode

CONSTANT Atom   \* contents of files

-----------------------------------------------------------------------------
(* Steps                                                                   *)

\* A file is written, and all or the first n bytes of it are read.
WriteFile == \E a \in Atom : \E n \in 0 .. Len(Encode(a)) : job' = [file |-> a, size |-> n]

Convert == ShowText \/ ListPeers \/ (job = NoJob /\ WriteFile)

-----------------------------------------------------------------------------
(* Correctness                                                             *)

\* What is written is what is read, from one start of the tracker to the next.
FilesReadBack ==
  \A a \in {job.file : x \in {"file"} \cap DOMAIN job} : Decode(Encode(a), 0) = a

\* A file that was cut is read as exactly what is left of it, or not at all where that
\* is nothing.  The exception are the bytes the decoder reads again, of a string cut so
\* short that its size loses digits and of a key dropped from an inner dictionary: of
\* n such bytes it makes up to n items, or new values of entries, or it gives up.
CutFilesReadBack ==
  \A a \in {job.file : x \in {"file"} \cap DOMAIN job} :
    LET read == Decode(SubSeq(Encode(a), 1, job.size), 0)
        left == leftOf(a, job.size)
        again == readAgain(itemsOf(a), job.size - 1)
    IN IF again = 0 THEN read = left ELSE read = Null \/ holds(read, left, again)
=============================================================================
