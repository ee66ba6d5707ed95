---------------------------- MODULE MCExtraction ----------------------------
(***************************************************************************)
(* A small instance of Extraction for TLC: a package in a directory or not *)
(* with its tool, links to it and around it, by name, case and alias.      *)
(***************************************************************************)
EXTENDS Extraction

MCUp == ".."
MCSlash == "/"
MCUnsafe == {"CON"}
MCWords == {"pkg", "lib", "tool", "Tool", "bin", "run", "top", "up", "CON", "..", "/"}
MCLower == [w \in MCWords |-> IF w = "Tool" THEN "tool" ELSE w]

File(p, c) == [path |-> p, kind |-> "file", target |-> <<>>, content |-> c, size |-> 2]
Dir(p) == [path |-> p, kind |-> "dir", target |-> <<>>, content |-> NoFile, size |-> 0]
Sym(p, t) == [path |-> p, kind |-> "symlink", target |-> t, content |-> NoFile, size |-> 1]
Hard(p, t) == [path |-> p, kind |-> "hardlink", target |-> t, content |-> NoFile, size |-> 1]

MCMembers ==
    {Dir(<<"pkg">>),
     File(<<"pkg", "tool">>, "one"),
     File(<<"pkg", "lib", "tool">>, "two"),
     File(<<"lib", "tool">>, "three"),
     Sym(<<"pkg", "tool">>, <<"..", "pkg", "lib", "tool">>),
     Sym(<<"pkg", "run">>, <<"lib", "tool">>),
     Sym(<<"pkg", "run">>, <<"Tool">>),
     Sym(<<"pkg", "bin">>, <<"lib">>),
     Sym(<<"pkg", "bin", "tool">>, <<"..", "tool">>),
     Sym(<<"bin">>, <<"pkg", "lib">>),
     Sym(<<"run">>, <<"bin", "..", "lib", "tool">>),
     Sym(<<"run">>, <<"pkg", "lib", "up", "..", "..", "lib", "tool">>),
     Sym(<<"pkg", "lib", "up">>, <<"..", "..", "top">>),
     Hard(<<"pkg", "run">>, <<"lib", "tool">>),
     Hard(<<"pkg", "run">>, <<"pkg", "bin", "tool">>),
     Hard(<<"pkg", "tool">>, <<"pkg", "run">>),
     [path |-> <<"CON">>, kind |-> "special", target |-> <<>>, content |-> NoFile, size |-> 0]}

MCCommands == {<<"tool">>, <<"run">>, <<"pkg", "tool">>}
=============================================================================
