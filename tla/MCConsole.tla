----------------------------- MODULE MCConsole ------------------------------
(* ConsoleIO for TLC.                                                      *)
EXTENDS ConsoleIO

CONSTANTS p1, p2

Key(code) == [code |-> code, e0 |-> FALSE]
RightKey(code) == [code |-> code, e0 |-> TRUE]

\* Both control keys, a shift key and the Enter key of the keypad; a letter
\* with the lock; the keys that start the machine again; a serial line
\* beside the keyboard.
Inputs ==
  { [keys |-> {Key(\h1D), RightKey(\h1D), Key(\h2A), RightKey(\h1C)},
     serial |-> {}, serial_exists |-> FALSE],
    [keys |-> {Key(\h1E), Key(\h3A), Key(\h36)},
     serial |-> {}, serial_exists |-> FALSE],
    [keys |-> {Key(\h1D), RightKey(\h38), RightKey(\h53)},
     serial |-> {}, serial_exists |-> FALSE],
    [keys |-> {Key(\h0E)},
     serial |-> {"a", "DEL", "CR", NO}, serial_exists |-> TRUE] }

Dir(conv, flags, width, star, precision, longs, arg) ==
  [conv |-> conv, flags |-> flags, width |-> width, star |-> star,
   precision |-> precision, longs |-> longs, arg |-> arg]
Plain(chars) == Dir("text", <<>>, -1, FALSE, -1, 0, chars)

\* Numbers of one digit and of the most, with widths below, at and above
\* their length; negative ones without a width.
Numbers ==
  { Dir(conv, flags, width, star, -1, longs, n) :
      conv \in {"u", "x", "d"}, flags \in {<<>>, <<"0">>}, width \in {-1, 2, 3, 10},
      star \in BOOLEAN, longs \in 0 .. 2, n \in {0, 9, 10, 127} }
    \cup { Dir(conv, <<>>, -1, FALSE, -1, longs, n) :
             conv \in {"u", "x", "d"}, longs \in 0 .. 2, n \in {-1, -10, -128} }
    \cup { Dir("p", <<>>, -1, FALSE, -1, 0, n) : n \in {0, 16, 255} }

Octals == { Dir("o", <<>>, width, FALSE, -1, longs, n) :
              width \in {-1, 4}, longs \in {0, 2}, n \in {0, 8, 100, -1} }

Strings ==
  { Dir("s", flags, width, star, precision, 0, str) :
      flags \in {<<>>, <<"-">>}, width \in {-1, 2, 4}, star \in BOOLEAN,
      precision \in {-1, 1, 3}, str \in {<<>>, <<"a">>, <<"a", "b", "\n">>} }

Characters == {"a", "b", "c", "d", "e", "f", "g", "h", "x", "<", "%", "-", " ",
               "0", "1", "2", "3", "4", "5", "6", "7", "8", "9", "\n", "\r", "\t", "BS"}

Job(text) == [text |-> text, size |-> 0, kernel |-> FALSE]

\* One directive; one between others, of which one is unknown.
Formats ==
  { <<d>> : d \in Numbers \cup Strings }
    \cup { <<Plain(<<"<">>), d, Plain(<<"%", "e">>), Dir("c", <<>>, -1, FALSE, -1, 0, "c")>> :
             d \in {e \in Numbers \cup Strings : e.width # 10 /\ e.longs # 1 /\ ~e.star} }

\* One process, the kernel, and a process with a small buffer.
Alone ==
  { p1 :> Job(f) : f \in Formats }
    \cup { p1 :> [Job(<<d>>) EXCEPT !.kernel = TRUE] : d \in Octals \cup Strings }
    \cup { p1 :> [Job(<<d, Plain(<<"\n">>)>>) EXCEPT !.size = n] : d \in Strings, n \in 1 .. 5 }

\* Text that wraps, goes back over the start of a row and scrolls.
Screens ==
  { p1 :> Job(<<Plain(s)>>) :
      s \in { <<"a", "\n", "b", "BS", "BS", "c", "\t">>,
              <<"a", "b", "\r", "c", "d", "e", "f", "g", "h", "BS">>,
              <<"\t", "\t", "a", "BS", "\n", "\n", "b">> } }

\* Two processes, with lines that fit the buffer and lines that do not.
Together ==
  { p1 :> Job(<<Plain(s)>>)
      @@ p2 :> [Job(<<Dir("u", <<"0">>, w, FALSE, -1, 0, 12), Plain(<<"\n">>)>>)
                  EXCEPT !.kernel = k] :
      s \in {<<"a", "b", "c", "\n">>, <<"a", "b", "c", "d", "e", "f", "\n">>},
      w \in {-1, 8}, k \in BOOLEAN }

Works == Alone \cup Screens \cup Together
=============================================================================
