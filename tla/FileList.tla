------------------------------- MODULE FileList -------------------------------
(***************************************************************************)
(* engine/AviSource and engine/InputGraph: which files a recording plays,  *)
(* in which order, and which of their frames fit the queue.                *)
(*                                                                         *)
(* The text that the user gives is its fields, the parts between the "|".  *)
(* A field, a pattern and a name are sequences of words, blanks and (in a  *)
(* pattern) wildcards.  An entry of the file system is its name, its place *)
(* in the order of _wcsicmp, whether it is a directory, and of an AVI file *)
(* the streams, the size of a frame and the number of frames.              *)
(***************************************************************************)
EXTENDS Naturals, Sequences, SequencesExt, FiniteSetsExt

CONSTANT Entries        \* what FindFiles may find

\* No two names differ in case only.
ASSUME EntriesAssumption ==
    /\ IsFiniteSet(Entries)
    /\ \A entry \in Entries : entry.folded \in Nat
    /\ \A a, b \in Entries : a.folded = b.folded => a = b

Space == " "
Wildcard == "*"
MinDVSampleSize == 144000

Trim(field) ==
    LET words == {i \in DOMAIN field : field[i] # Space}
    IN  IF words = {} THEN <<>> ELSE SubSeq(field, Min(words), Max(words))

Matches(name, pattern) ==
    /\ Len(name) = Len(pattern)
    /\ \A i \in DOMAIN name : pattern[i] \in {name[i], Wildcard}
FindFiles(pattern) == {entry \in Entries : Matches(entry.name, pattern)}

\* Of one pattern's matches the files count, in the order of their names.
Sorted(found) ==
    LET matches == {entry \in found : ~entry.isDirectory}
    IN  CHOOSE list \in [1..Cardinality(matches) -> matches] :
            \A i, j \in DOMAIN list : i < j => list[i].folded < list[j].folded

\* The files a text stands for: none, and no recording, if a pattern matches
\* nothing ("file not found") or only directories are left ("No file
\* selected").
Filenames(text) ==
    LET patterns == [i \in DOMAIN text |-> Trim(text[i])]
    IN  IF \E i \in DOMAIN text :
              patterns[i] # <<>> /\ FindFiles(patterns[i]) = {}
          THEN <<>>
          ELSE FoldLeft(LAMBDA files, pattern :
                            IF pattern = <<>> THEN files
                            ELSE files \o Sorted(FindFiles(pattern)),
                        <<>>, patterns)

\* A type-1 file has an interleaved stream; a type-2 file has a video stream
\* that goes through the DV muxer, and audio or none.
IsDVFile(file) == file.streams \cap {"interleaved", "dvVideo"} # {}

\* The slots of the queue fit a frame of the first file, and a PAL one.
SlotSize(first) ==
    IF first.size < MinDVSampleSize THEN MinDVSampleSize ELSE first.size
=============================================================================
