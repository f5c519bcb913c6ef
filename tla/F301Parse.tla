----------------------------- MODULE F301Parse -----------------------------
(***************************************************************************)
(* util/f301_builder/src/parse.c: the description of a disk image          *)
(* (default.f3s) and the entries read from it.  A text is a sequence of    *)
(* lexemes: words and the delimiters ':' '[' '=' ',' '{' '}' ']'.  White   *)
(* space, which the scanner drops around words, is left out.               *)
(***************************************************************************)
EXTENDS Integers, Sequences

Perms == {"read", "write", "exec"}

(* The keyword's value; "none" gives everybody the permission, and an      *)
(* unknown word changes nothing.                                           *)
PermOf(word, old) ==
  CASE word \in {"none", "all"} -> "ALL"
    [] word = "owner"           -> "OWNER"
    [] OTHER                    -> old

(* A field that needs no further text; a wrong one stops the builder.      *)
SetField(ps, key, word) ==
  CASE key \in {"name", "owner"}        -> [ps EXCEPT ![key] = word]
    [] key \in Perms                    -> [ps EXCEPT !.perm[key] = PermOf(word, @)]
    [] key = "actual" /\ ps.type = "f"  -> [ps EXCEPT !.actual = word]
    [] key = "dest"   /\ ps.type = "i"  -> [ps EXCEPT !.dest = word]
    [] OTHER                            -> [ps EXCEPT !.error = TRUE]

RECURSIVE Fields(_, _, _), Contents(_, _, _)

(* parse_next: an entry at position `at' of the text, with the permissions *)
(* it inherits, and the position after it.                                 *)
parse_next(t, at, perm) ==
  Fields(t, at + 3,
         [type |-> t[at], name |-> "", owner |-> "0", perm |-> perm, actual |-> "",
          dest |-> "", contents |-> <<>>,
          error |-> t[at] \notin {"f", "d", "i"} \/ t[at + 1] # ":" \/ t[at + 2] # "["])

(* Fields up to the closing bracket; entries inside inherit what was set   *)
(* before `contents', not what follows it.                                 *)
Fields(t, at, ps) ==
  LET inner == Contents(t, at + 3, ps.perm)
      nests == t[at] = "contents" /\ ps.type = "d" /\ t[at + 2] = "{"
      done  == IF nests THEN [ps EXCEPT !.contents = inner.list]
               ELSE SetField(ps, t[at], t[at + 2])
      next  == IF nests THEN inner.at ELSE at + 3
  IN  IF done.error \/ t[at + 1] # "=" THEN [ps |-> [done EXCEPT !.error = TRUE], at |-> at]
      ELSE IF t[next] = "]" THEN [ps |-> done, at |-> next + 1]
      ELSE Fields(t, next + 1, done)

(* Entries up to the closing brace.                                        *)
Contents(t, at, perm) ==
  IF t[at] = "}" THEN [list |-> <<>>, at |-> at + 1]
  ELSE LET one  == parse_next(t, at, perm)
           more == Contents(t, one.at, perm)
       IN  IF one.ps.error THEN [list |-> <<one.ps>>, at |-> Len(t)]
           ELSE [list |-> <<one.ps>> \o more.list, at |-> more.at]

(* The entries of a whole file, as main calls parse_next until the end.    *)
RECURSIVE ParseAll(_, _)
ParseAll(t, at) ==
  IF at > Len(t) THEN <<>>
  ELSE LET one == parse_next(t, at, [k \in Perms |-> "NONE"])
       IN  <<one.ps>> \o (IF one.ps.error THEN <<>> ELSE ParseAll(t, one.at))
=============================================================================
