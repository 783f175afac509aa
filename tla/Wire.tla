-------------------------------- MODULE Wire --------------------------------
(***************************************************************************)
(* The reading side of the SFTP packet codec (src/core/sftp/packet.cpp).   *)
(* A payload is the sequence of its fields, each with its width or kind    *)
(* and its value; the reader is a position in it, 0 once it has failed.    *)
(* What matters is how many fields a reader consumes: ATTRS has no length  *)
(* of its own, so a group that is skipped or read twice shifts every entry *)
(* behind it.  A read at the wrong field fails here, where bytes might     *)
(* also be misread.                                                        *)
(***************************************************************************)
EXTENDS Integers, Sequences

CONSTANT NoTime    (* the mtime of an entry whose ATTRS has none           *)

Field(kind, value) == [is |-> kind, v |-> value]

(* The groups of ATTRS, each present when its flag is set.                 *)
AttrGroups == {"size", "uidgid", "perms", "times", "extended"}

(* What a server sends: the groups in the order of the draft, a NAME reply
   as a count and then name, longname and ATTRS of each entry.             *)
AttrFields(groups, mtime) ==
  LET Part(g, fields) == IF g \in groups THEN fields ELSE <<>>
      number == Field("u32", 0)
  IN <<Field("flags", groups)>>
       \o Part("size", <<Field("u64", 0)>>)
       \o Part("uidgid", <<number, number>>)
       \o Part("perms", <<number>>)
       \o Part("times", <<Field("u32", mtime), Field("u32", mtime)>>)
       \o Part("extended", <<Field("u32", 1), Field("str", "x"), Field("str", "y")>>)

NameFields(name, groups, mtime) ==
  <<Field("str", name), Field("str", "longname")>> \o AttrFields(groups, mtime)

-----------------------------------------------------------------------------
(* BufferReader: the next field of the kind, or failure.                   *)
Next1(f, p, kind) ==
  IF p \in 1 .. Len(f) /\ f[p].is = kind THEN p + 1 ELSE 0

(* As many fields as there are kinds, one after the other.                 *)
NextN(f, p, kinds) ==
  IF p # 0 /\ \A i \in 1 .. Len(kinds) : Next1(f, p + i - 1, kinds[i]) # 0
  THEN p + Len(kinds) ELSE 0

(* ParseExtendedAttrs: a count, then as many pairs of strings.             *)
Extended(f, p) ==
  LET q == Next1(f, p, "u32")
  IN IF q = 0 THEN 0 ELSE NextN(f, q, [i \in 1 .. 2 * f[p].v |-> "str"])

(* A plausible bug, for the check of ListingTrue: one time instead of two. *)
Mut_OneTime(f, p) ==
  LET flags == IF Next1(f, p, "flags") = 0 THEN {} ELSE f[p].v
      times == IF "size" \in flags THEN Next1(f, p + 1, "u64") ELSE p + 1
  IN [next  |-> IF "times" \in flags THEN Next1(f, times, "u32") ELSE times,
      mtime |-> IF "times" \in flags /\ times # 0 THEN f[times].v ELSE NoTime]

(* ParseAttrs: the groups of the flags, in order, and no unknown flag.     *)
Attrs(f, p) ==
  LET flags == IF Next1(f, p, "flags") = 0 THEN {} ELSE f[p].v
      Group(g, q, kinds) == IF g \in flags THEN NextN(f, q, kinds) ELSE q
      times == Group("perms", Group("uidgid", Group("size", Next1(f, p, "flags"),
                     <<"u64">>), <<"u32", "u32">>), <<"u32">>)
      extended == Group("times", times, <<"u32", "u32">>)
      end == IF "extended" \in flags THEN Extended(f, extended) ELSE extended
  IN [next  |-> IF flags \subseteq AttrGroups THEN end ELSE 0,
      mtime |-> IF "times" \in flags /\ extended # 0 THEN f[times + 1].v ELSE NoTime]

(* One entry of a NAME reply.                                              *)
Entry(f, p) ==
  LET a == Attrs(f, NextN(f, p, <<"str", "str">>))
  IN [next |-> a.next, name |-> IF a.next = 0 THEN NoTime ELSE f[p].v, mtime |-> a.mtime]
=============================================================================
