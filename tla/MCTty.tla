------------------------------- MODULE MCTty --------------------------------
(***************************************************************************)
(* An instance of Tty for TLC: lines are typed and edited; modifiers and   *)
(* unknown keys are pressed while the kernel logs; tabs and capitals are   *)
(* typed; and a line is edited while tasks write and the kernel logs.      *)
(***************************************************************************)
EXTENDS Tty

Plain(name) == [name |-> name, code |-> name, ext |-> FALSE]
Extended(name, code) == [name |-> name, code |-> code, ext |-> TRUE]
Env(keySet, textSet) == [keys |-> keySet, texts |-> textSet]

MCEnvironments ==
  {Env({Plain("a"), Plain("b"), Plain("back"), Plain("enter")}, {}),
   Env({Plain("lshift"), Plain("rshift"), Plain("caps"),
        Extended("rctrl", "lctrl"), Extended("fake", "lshift")}, {<<"o">>}),
   Env({Plain("lshift"), Plain("a"), Plain("tab"), Plain("back")}, {}),
   Env({Plain("a"), Plain("back")}, {<<"o">>})}
=============================================================================
