--------------------------- MODULE MCCommandLine ----------------------------
(***************************************************************************)
(* Two input files in the default directory, three files for createMode.   *)
(* The properties file is missing, or asks for two caches, or for one with *)
(* two input files, or gives a bucket chain the offset bits of a linear    *)
(* probe and an output directory that is not there; it may ask for so few  *)
(* slots that the input does not fit.                                      *)
(***************************************************************************)
EXTENDS CommandLine

MCIntegerOf == [x \in {"0", "1", "2", "3", "4", "35", "50", "90"} |->
                  CASE x = "0" -> 0 [] x = "1" -> 1 [] x = "2" -> 2
                    [] x = "3" -> 3 [] x = "4" -> 4 [] x = "35" -> 35
                    [] x = "50" -> 50 [] x = "90" -> 90]

MCEscapes == [x \in {"\\n"} |-> "LF"]
MCFirstChar == [x \in {";"} |-> ";"]

Scalar(k, v) == [kind |-> "scalar", key |-> k, value |-> v]
Vector(k, v) == [kind |-> "vector", key |-> k, value |-> v]
Invalid == [kind |-> "invalid"]
Typed(i, k, v) == [kind |-> "typed", id |-> i, key |-> k, value |-> v]

MCInputFiles ==
  [p \in {<<"datamover", "f1">>, <<"datamover", "f2">>, <<"tmp", "typed">>,
          <<"tmp", "wrong">>, <<"tmp", "floats">>} |->
     CASE p[2] = "f1" ->
            [RS |-> <<Scalar("a", "v1"), Vector("b", "l"), Scalar("a", "v2")>>,
             LF |-> <<Invalid, Invalid>>]
       [] p[2] = "f2" ->
            [RS |-> <<Scalar("b", "v3"), Invalid>>, LF |-> <<Invalid>>]
       [] p[2] = "typed" ->
            [RS |-> <<Invalid>>,
             LF |-> <<[kind |-> "types",
                       types |-> [i1 |-> "FloatList", i2 |-> "Bytes"]],
                      [kind |-> "empty"], Typed("i2", "a", "v"),
                      Typed("i1", "b", "1:2"), Typed("i3", "a", "v4")>>]
       [] p[2] = "wrong" ->
            [RS |-> <<Invalid>>,
             LF |-> <<[kind |-> "empty"], Typed("i1", "a", "v5"),
                      [kind |-> "types", types |-> [i1 |-> "Bool"]]>>]
       [] p[2] = "floats" ->
            [RS |-> <<Invalid>>,
             LF |-> <<[kind |-> "types", types |-> [i1 |-> "FloatList"]],
                      Typed("i1", "a", "x")>>]]

MCDirectories == {"datamover", "tmp", "."}

Line(n, v) == [equals |-> TRUE, comment |-> FALSE, name |-> n, value |-> v]

MCConfigFiles ==
  {<<>>,
   <<Line(<<"names">>, <<"c", "d">>), Line(<<"type", "c">>, "1"),
     Line(<<"type", "c">>, "3"), Line(<<"input_files", "c">>, <<"f2">>),
     Line(<<"type", "d">>, "2"), Line(<<"input_files", "d">>, <<"f1">>)>>,
   <<Line(<<"names">>, <<"d", "c">>), Line(<<"type", "d">>, "2"),
     Line(<<"input_files", "d">>, <<"f2">>), Line(<<"output_dir", "d">>, "none"),
     [Line(<<"type", "c">>, "4") EXCEPT !.comment = TRUE],
     [Line(<<"type", "c">>, "4") EXCEPT !.equals = FALSE],
     Line(<<"offset_bits", "c">>, "35"), Line(<<"key_slots", "c">>, "4")>>,
   <<Line(<<"input_files", "c">>, <<"f1", "f2">>),
     Line(<<"control_char.line">>, "\\n")>>}

Command(n, k) == [name |-> n, key |-> k]

NoOptions ==
  [input |-> FALSE, create |-> FALSE, bench |-> FALSE, load |-> FALSE,
   name |-> "c", type |-> "2", inputFiles |-> <<>>, outputDir |-> "datamover",
   createFile |-> <<>>, slots |-> 4, loadDir |-> "datamover", abspath |-> <<>>,
   latest |-> FALSE, timestamp |-> "missing", stdin |-> <<>>, repeat |-> 1]

Stdin == <<Command("GET", "a"), Command("GETBOOL", "a"), Command("GET", "b"),
           Command("unknown", "a"), Command("GETVECTOR", "b"),
           Command("GET", "")>>

\* The string "v1" is no list of floats: the third command throws for a file
\* made from f1, and so does the fourth for one made from f2 alone.
FloatStdin == <<Command("GET", "a"), Command("GETLONG", "a"),
                Command("GETFLOATVECTOR", "a"), Command("GETFLOATSPAN", "b"),
                Command("GETFLOATATINDEX", "b"), Command("GETINTEGER", "b")>>

MCCommandLines ==
  {NoOptions,
   [NoOptions EXCEPT !.input = TRUE, !.type = "3", !.inputFiles = <<"f1">>],
   [NoOptions EXCEPT !.input = TRUE, !.inputFiles = <<"f1">>],
   [NoOptions EXCEPT !.input = TRUE, !.type = "4", !.inputFiles = <<"f1">>],
   [NoOptions EXCEPT !.input = TRUE, !.type = "1", !.inputFiles = <<"f2">>],
   [NoOptions EXCEPT !.input = TRUE, !.inputFiles = <<"f2">>,
                     !.name = "bench_cli_test", !.outputDir = "."],
   [NoOptions EXCEPT !.create = TRUE, !.createFile = <<"tmp", "typed">>],
   [NoOptions EXCEPT !.create = TRUE, !.createFile = <<"tmp", "typed">>,
                     !.slots = 2],
   [NoOptions EXCEPT !.create = TRUE, !.createFile = <<"tmp", "wrong">>],
   [NoOptions EXCEPT !.create = TRUE, !.createFile = <<"tmp", "floats">>],
   [NoOptions EXCEPT !.create = TRUE, !.createFile = <<"tmp", "none">>],
   [NoOptions EXCEPT !.bench = TRUE],
   [NoOptions EXCEPT !.load = TRUE, !.stdin = Stdin, !.repeat = 2],
   [NoOptions EXCEPT !.load = TRUE, !.latest = TRUE, !.stdin = Stdin],
   [NoOptions EXCEPT !.load = TRUE, !.latest = TRUE, !.stdin = Stdin,
                     !.name = "bench_cli_test", !.loadDir = ".",
                     !.timestamp = "1690484217134"],
   [NoOptions EXCEPT !.abspath = <<"datamover", "d">>, !.name = "",
                     !.stdin = Stdin],
   [NoOptions EXCEPT !.load = TRUE, !.stdin = FloatStdin, !.repeat = 2],
   [NoOptions EXCEPT !.load = TRUE, !.stdin = Stdin, !.repeat = -1]}

=============================================================================
