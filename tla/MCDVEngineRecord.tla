-------------------------- MODULE MCDVEngineRecord --------------------------
(* DVEngineRecord with a queue of one frame and up to four files.          *)
EXTENDS DVEngineRecord

File(name, folded, streams, size, frames) ==
    [name |-> name, folded |-> folded, isDirectory |-> FALSE,
     streams |-> streams, size |-> size, frames |-> frames]
Directory(name) ==
    [File(name, 0, {}, 0, 0) EXCEPT !.isDirectory = TRUE]
Type1 == {"interleaved"}
Type2 == {"dvVideo", "audio"}

\* Two folders, files beside them, and some that cannot be recorded.
MCEntries ==
    {File(<<"tape", "b">>, 2, Type2, 144000, 1),
     File(<<"tape", "a">>, 1, Type1, 120000, 2),
     Directory(<<"tape", "c">>),
     File(<<"day", "a">>, 3, Type1, 144000, 1),
     File(<<"day", "b">>, 4, {"dvVideo"}, 144000, 0),
     File(<<"day", "c">>, 5, Type2, 144000, 1),
     File(<<"x">>, 6, Type1, 144000, 1),
     File(<<"blank">>, 7, Type1, 144000, 0),
     File(<<"song">>, 8, {"audio"}, 0, 0),
     File(<<"dv50">>, 9, Type1, 288000, 1)}

\* More frames than the queue holds, a file without frames, files of another
\* size or without video, a single file, directories and nothing at all.
MCTexts ==
    {<<<<" ", "tape", "*">>, <<>>>>,
     <<<<"day", "*", " ">>, <<" ">>, <<" ", "x">>>>,
     <<<<"blank">>>>,
     <<<<"x">>, <<"dv50">>>>, <<<<"x">>, <<"song">>>>, <<<<"song">>>>,
     <<<<"tape", "c">>>>, <<<<"x">>, <<"y">>>>, <<<<" ">>>>}

(* The texts stand for the files they should.                               *)
Counts(list) == [i \in DOMAIN list |-> list[i].frames]
ASSUME FilesFound ==
    {Counts(Filenames(text)) : text \in MCTexts} =
        {<<2, 1>>, <<1, 0, 1, 1>>, <<0>>, <<1, 1>>, <<1, 0>>, <<>>}
=============================================================================
