-------------------------------- MODULE MCSaves --------------------------------
(***************************************************************************)
(* What becomes of a title's saves, in three components that are checked     *)
(* side by side: which one a behaviour is of is chosen at its start, and the *)
(* others rest. They share no state in the program either.                   *)
(*                                                                          *)
(* names: titles whose names meet. Names that chain (the name "A" takes is   *)
(* the earlier name of "#A"), a directory, a name too long to encode; a name *)
(* too long to encode that another one takes; names a volume that ignores    *)
(* case takes for one; and a directory an earlier build puts back. store:    *)
(* two threads, a store the archive carries and one it does not, two         *)
(* sessions, and two refusals. files: one open file at a time of two, one of *)
(* them in the archive, two writes and two cells.                            *)
(***************************************************************************)
EXTENDS NativeFiles, RecordStore, SaveNames

CONSTANTS t1, t2, carried, own

VARIABLE part   \* the component the behaviour is of

Chain == {<<"A">>, <<"#A">>, <<"D", "A">>, <<"Long">>}
LongTaken == {<<"B">>, <<"#B">>, <<"c", "B">>}
Folding == {<<"a">>, <<"A">>, <<"#a">>}
PutBackDirectory == {<<"A">>, <<"D", "e">>, <<"D", "f">>}

AllTitles == {Chain, LongTaken, Folding, PutBackDirectory}
AllSegments == {"A", "#A", "D", "Long", "B", "#B", "c", "a", "#a", "e", "f"}
AllKeys == UNION AllTitles

Encoding ==
    [s \in AllSegments |->
        CASE s = "A" -> "#A" [] s = "#A" -> "###A" [] s = "#a" -> "##a" [] s = "D" -> "#D"
          [] s = "B" -> "#B" [] s = "#B" -> "###B" [] s = "Long" -> "#Long"
          [] OTHER -> s]

Temporaries == <<"temporary 1", "temporary 2", "temporary 3", "temporary 4">>

AllNames ==
    AllSegments \cup {Encoding[s] : s \in AllSegments} \cup {Temporaries[i] : i \in DOMAIN Temporaries}

IgnoresCase ==
    [n \in AllNames |->
        CASE n = "A" -> "a" [] n = "#A" -> "#a" [] n = "###A" -> "###a" [] OTHER -> n]

\* An earlier build writes while nothing is being converted, and puts back
\* what is being converted of one title.
WhenWritten ==
    [t \in AllTitles |->
        CASE t = PutBackDirectory -> {"absent", "encoded", "moving", "placing"}
          [] t = Folding -> {"absent"}
          [] OTHER -> {"absent", "encoded"}]

ASSUME SaveNamesConstants == NamesAssumption /\ DirectoriesAssumption

ArchivedStores == (carried :> <<2>>)

ASSUME RecordStoreConstants == RecordStoreAssumption

Archive == [carried |-> <<1>>]

ASSUME NativeFilesConstants == NativeFilesAssumption

SavesInit ==
    /\ part \in {"names", "store", "files"}
    /\ NamesInit /\ Init /\ FilesInit
    /\ part # "names" => title = Folding /\ named = <<>>
    /\ store.own # Absent => part = "files"

\* Only the names are checked for deadlock: a title may have nothing more to do.
SavesNext ==
    /\ UNCHANGED part
    /\ \/ part = "names" /\ NamesNext /\ UNCHANGED <<vars, filesVars>>
       \/ part = "store" /\ Next /\ UNCHANGED <<namesVars, filesVars>>
       \/ part = "files" /\ FilesNext /\ UNCHANGED <<namesVars, vars>>
       \/ part = "store" /\ UNCHANGED <<namesVars, vars, filesVars>>

SavesSpec == SavesInit /\ [][SavesNext]_<<part, namesVars, vars, filesVars>>

ThreadSymmetry == Permutations({t1, t2})
=============================================================================
