----------------------------- MODULE MCStartup -----------------------------
(* Model-checking instances of Startup: a handful of disk images.          *)
EXTENDS Startup

MCSpell == [n \in {"@", "/", "k", "x", "s", "i", "l", "a", "b", "d", "ab", "abc", "ad"} |->
  CASE n = "ab" -> <<"a", "b">> [] n = "abc" -> <<"a", "b", "c">> [] n = "ad" -> <<"a", "d">>
    [] OTHER -> <<n>>]
MCNoFile == -1
MCWild   == -2
MCKernel == <<"k">>
MCStart  == <<"/", "s", "/", "i">>
MCList   == <<"/", "s", "/", "l">>

Silent == [k \in Perms |-> ""]
Entry(type, name) == [type |-> type, name |-> name, own |-> Silent, actual |-> "",
                      dest |-> "", contents |-> <<>>]
File(name, f)   == [Entry("f", name) EXCEPT !.actual = f]
Link(name, to)  == [Entry("i", name) EXCEPT !.dest = to]
Dir(name, list) == [Entry("d", name) EXCEPT !.contents = list]
Own(e, k, w)    == [e EXCEPT !.own[k] = w]

(* A description written down: the fields a person would write, contents   *)
(* last.                                                                   *)
RECURSIVE Describe(_)
Describe(list) ==
  FlattenSeq([i \in DOMAIN list |->
    LET e == list[i]
        says(k) == IF e.own[k] = "" THEN <<>> ELSE <<",", k, "=", e.own[k]>>
    IN  <<e.type, ":", "[", "name", "=", e.name>>
          \o says("read") \o says("write") \o says("exec")
          \o (CASE e.type = "f" -> <<",", "actual", "=", e.actual>>
                [] e.type = "i" -> <<",", "dest", "=", e.dest>>
                [] e.type = "d" -> <<",", "contents", "=", "{">> \o Describe(e.contents) \o <<"}">>)
          \o <<"]">>])

Boots   == Dir("@", <<File("x", "one"), File("k", "kernel")>>)
System(more) ==
  Dir("/", <<Own(Dir("s", <<File("i", "start"), File("l", "list")>>), "read", "owner")>> \o more)

Host == [f \in {"kernel", "start", "list", "none", "one", "two", "empty", "long"} |->
  CASE f = "kernel" -> 9 [] f = "start" -> 5 [] f = "list" -> 8 [] f = "none" -> NoFile
    [] f = "one" -> 4 [] f = "two" -> 7 [] f = "empty" -> 0 [] f = "long" -> 10]

Config(decl, names, list) ==
  [decl |-> decl, text |-> Describe(decl), host |-> Host, names |-> names, list |-> list]
A == <<"/", "a">>
B == <<"/", "b">>

(* Names that begin alike, a directory and a link among the files; the     *)
(* list is in two blocks, with comments as in run_prgms.lst.               *)
Plain == Config(
  <<Boots, Own(System(<<File("ab", "two"), File("a", "one"), Link("b", "a"),
           Own(Own(Dir("d", <<Own(File("b", "one"), "read", "all"), Dir("a", <<>>), File("ad", "two")>>),
                   "write", "all"), "exec", "owner")>>), "exec", "all")>>,
  <<<<"/", "a", "b">>, <<"/", "d", "/", "a", "d">>, A>>,
  <<<<"#", "\n", "#", "/", "a", "\n", " ", "/", "a", "b", "\n", "/">>,
    <<"d", "/", "a", "d", " ", "#", "b", "\n", "/", "a", "\n">>>>)
(* Programs that are missing, empty or too long to be read in one go.      *)
Odd == Config(
  <<System(<<File("a", "empty"), File("ab", "none"), File("b", "two"), Dir("d", <<File("a", "long")>>)>>),
    Boots>>,
  <<A, <<"/", "a", "b">>, <<"/", "x">>, B, <<"/", "d", "/", "a">>>>,
  <<<<"/", "a", "\n", "/", "a", "b", "\n", "/", "x", "\n", "/", "b", "\n">>, <<"/", "d", "/", "a", "\n">>>>)
(* More programs than the heap has room for, with and without a rest; the  *)
(* first that finds no place is one block long.                            *)
Many == Config(<<Boots, System(<<File("a", "two"), File("b", "one")>>)>>,
  <<A, A, A, B, A>>, <<<<"/", "a", " ", "/", "a", " ", "/", "a", " ">>, <<"/", "b", " ", "/", "a", "\n">>>>)
Full == Config(<<Boots, System(<<File("a", "two"), File("b", "one"), File("d", "long")>>)>>,
  <<A, B, A, B, B, A>>, <<<<"/", "a", " ", "/", "b", " ", "/", "a", " ">>, <<"/", "b", " ", "/", "b", " ", "/", "a", "\n">>>>)
(* A name of two string nodes.                                             *)
LongName == Config(<<Boots, System(<<File("abc", "one"), File("a", "one")>>)>>,
  <<A, <<"/", "a", "b", "c">>>>, <<<<"/", "a", "\n", "/", "a", "b", "c">>, <<"\n">>>>)
(* A list without a word in it.                                            *)
NoWords == Config(<<Boots, Dir("/", <<Dir("s", <<File("i", "start"), File("l", "empty")>>)>>)>>, <<>>, <<>>)
(* No list; no boot directory; a file at the top.                          *)
NoList  == Config(<<Boots, Dir("/", <<Dir("s", <<File("i", "start")>>)>>)>>, <<>>, <<>>)
NoBoot  == Config(<<System(<<>>)>>, <<>>, <<>>)
Outside == Config(<<Boots, System(<<>>), File("a", "one")>>, <<>>, <<>>)

MCConfigs == [plain |-> Plain, odd |-> Odd, many |-> Many, full |-> Full, longname |-> LongName, nowords |-> NoWords,
              nolist |-> NoList, noboot |-> NoBoot, outside |-> Outside]
MCPaths   == {<<"/", "a", "b">>, <<"/", "d", "/">>, <<"/", "d">>, <<"/", "d", "/", "/", "a">>,
              <<"a", "d">>, <<"b">>}
=============================================================================
