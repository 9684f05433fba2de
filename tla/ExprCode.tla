------------------------------- MODULE ExprCode -----------------------------
(***************************************************************************)
(* What expressions are for (expr_all.cpp, expr_util.hpp, call.cpp): a     *)
(* call looks its expressions up by hash and equality, which ignore        *)
(* dynamic values; on a miss it writes them as code in which the dynamic   *)
(* values are numbered parameters; and in any case it extracts the values, *)
(* in another traversal, for the code it has found.                        *)
(*                                                                         *)
(* Code is a sequence of tokens.  How nodes are shared and freed is in     *)
(* ExprRefs, and what can fail in a call in Runtime.                       *)
(***************************************************************************)
EXTENDS Integers, Sequences, SequencesExt

CONSTANTS
  Nodes,       \* the expressions a program makes, in the order it makes them
  Calls,       \* the calls it makes, as keys (see Key)
  Num,         \* addresses, characters and string hashes, as numbers
  W,           \* values of size_t
  MaxEntries   \* bound: entries of the cache

(* An expression is known by its number, as by its address in the program. *)
Exprs == 1 .. Len(Nodes)

WidthAssumption == W \in Nat \ {0} /\ MaxEntries \in Nat

(* Handles in a node are to nodes made before.                             *)
NodesAssumption ==
  /\ Nodes \in Seq({Nodes[n] : n \in Exprs})
  /\ \A n \in Exprs :
       LET e == Nodes[n] IN
         /\ e.cls \in {"dyn", "raw", "call", "infix"}
         /\ e.cls = "call" => e.fn \in 1 .. n - 1 /\ e.args \in Seq(1 .. n - 1)
         /\ e.cls = "infix" => {e.left, e.right} \subseteq 1 .. n - 1
  /\ \A k \in Calls : k.tmpl_args \in Seq(Exprs) /\ k.call_args \in Seq(Exprs)

(* Raw code is an integer, a character in quotes or a qualified name, and  *)
(* imitates no bracket, comma or operator.  There are two kinds of         *)
(* brackets and one operator, and a call without template arguments has    *)
(* none (expr_all.cpp:159-162, 307-415, import.hpp:44-45).                  *)
Marks == {",", "(", ")", "<", ">", "^"}
TextAssumption ==
  /\ \A n \in Exprs :
       LET e == Nodes[n] IN
         /\ e.cls = "raw" => e.code \notin Marks
         /\ e.cls = "call" => <<e.lbr, e.rbr>> \in {<<"(", ")">>, <<"<", ">">>}
         /\ e.cls = "infix" => e.op = "^"
  /\ \A k \in Calls :
       k.have_tmpl_args \in BOOLEAN /\ (~k.have_tmpl_args => k.tmpl_args = <<>>)

VARIABLES
  cache,  \* GLOBAL_cache: keys with the code compiled for them
  run     \* the last call: its code, its parameters, and what it was to say

vars == <<cache, run>>

-----------------------------------------------------------------------------
(* Nodes. *)

dyn_expr(tag, value) == [cls |-> "dyn", tag |-> tag, value |-> value]
raw_expr(code) == [cls |-> "raw", code |-> code]
bracketed(fn, args, lbr, rbr) ==
  [cls |-> "call", fn |-> fn, args |-> args, lbr |-> lbr, rbr |-> rbr]
call_expr(fn, args) == bracketed(fn, args, "(", ")")
inst_expr(fn, args) == bracketed(fn, args, "<", ">")
infix_expr(op, left, right) == [cls |-> "infix", op |-> op, left |-> left, right |-> right]

Key(fn, have, tmpl, args) ==
  [fn |-> fn, have_tmpl_args |-> have, tmpl_args |-> tmpl, call_args |-> args]

(* A function of expressions is a table over Exprs, and what a class does  *)
(* is an operator of the node and of the table, used for its parts.        *)
Each(es, table) == [i \in DOMAIN es |-> table[es[i]]]

-----------------------------------------------------------------------------
(* Hashes are in the nodes, computed when these are made; size_t wraps. *)

hash_all(components) == FoldLeft(LAMBDA r, c : (31 * r + c) % W, 1, components)

HashesValue(e) ==  \* mutant: the value of a dynamic expression is hashed too
  hash_all(<<Num[e.cls], Num[e.tag], e.value>>)

DynHash(e) == hash_all(<<Num[e.cls], Num[e.tag]>>)

hash_of(e, hash) ==
  CASE e.cls = "dyn"   -> DynHash(e)
    [] e.cls = "raw"   -> hash_all(<<Num[e.cls], Num[e.code]>>)
    [] e.cls = "call"  -> hash_all(<<Num[e.cls], hash[e.fn], hash_all(Each(e.args, hash)), Num[e.lbr]>>)
    [] e.cls = "infix" -> hash_all(<<Num[e.cls], Num[e.op], hash[e.left], hash[e.right]>>)

Hash == LET hash[n \in Exprs] == hash_of(Nodes[n], hash) IN hash

HashSeq(es) == hash_all(Each(es, Hash))

AnyTag(a, b) == TRUE  \* mutant: dynamic expressions are all alike

DynEqual(a, b) == a.tag = b.tag

(* Of a pair of expressions: the same one, or else of the same hash and    *)
(* class, and equal by their parts.                                        *)
equal_parts(a, b, equal) ==
  CASE a.cls = "dyn"   -> DynEqual(a, b)
    [] a.cls = "raw"   -> a.code = b.code
    [] a.cls = "call"  ->
         /\ equal[<<a.fn, b.fn>>]
         /\ Len(a.args) = Len(b.args)
         /\ \A i \in DOMAIN a.args : equal[<<a.args[i], b.args[i]>>]
         /\ a.lbr = b.lbr /\ a.rbr = b.rbr
    [] a.cls = "infix" ->
         /\ a.op = b.op
         /\ equal[<<a.left, b.left>>] /\ equal[<<a.right, b.right>>]

equal_to(m, n, equal) ==
  \/ m = n
  \/ /\ Hash[m] = Hash[n]
     /\ Nodes[m].cls = Nodes[n].cls
     /\ equal_parts(Nodes[m], Nodes[n], equal)

Equal == LET equal[both \in Exprs \X Exprs] == equal_to(both[1], both[2], equal) IN equal

EqualSeq(s, t) == Len(s) = Len(t) /\ \A i \in DOMAIN s : Equal[<<s[i], t[i]>>]

KeyHash(k) ==
  hash_all(<<Num[k.fn], IF k.have_tmpl_args THEN 1 ELSE 0,
             HashSeq(k.tmpl_args), HashSeq(k.call_args)>>)

KeyEqual(k, l) ==
  /\ KeyHash(k) = KeyHash(l)
  /\ k.fn = l.fn /\ k.have_tmpl_args = l.have_tmpl_args
  /\ EqualSeq(k.tmpl_args, l.tmpl_args)
  /\ EqualSeq(k.call_args, l.call_args)

-----------------------------------------------------------------------------
(* The traversals, and their loops over arguments.                         *)

Total(counts) ==
  LET total[i \in 0 .. Len(counts)] == IF i = 0 THEN 0 ELSE total[i - 1] + counts[i]
  IN  total[Len(counts)]

count_of(e, count) ==
  CASE e.cls = "dyn"   -> 1
    [] e.cls = "raw"   -> 0
    [] e.cls = "call"  -> count[e.fn] + Total(Each(e.args, count))
    [] e.cls = "infix" -> count[e.left] + count[e.right]

num_params == LET count[n \in Exprs] == count_of(Nodes[n], count) IN count

num_params_of(es) == Total(Each(es, num_params))

(* One text after the other, with a comma before all but the first.        *)
Separator(comma, i) == IF i = 1 THEN <<>> ELSE comma
Joined(comma, texts) ==
  LET out[i \in 0 .. Len(texts)] ==
        IF i = 0 THEN <<>> ELSE out[i - 1] \o (Separator(comma, i) \o texts[i])
  IN  out[Len(texts)]

extract_of(e, extract) ==
  CASE e.cls = "dyn"   -> << <<e.tag, e.value>> >>
    [] e.cls = "raw"   -> <<>>
    [] e.cls = "call"  -> extract[e.fn] \o Joined(<<>>, Each(e.args, extract))
    [] e.cls = "infix" -> extract[e.left] \o extract[e.right]

extract_params == LET extract[n \in Exprs] == extract_of(Nodes[n], extract) IN extract

extract_params_of(es) == Joined(<<>>, Each(es, extract_params))

(* Tokens of code: text, parameters, and values in place of parameters.    *)
Token(t) == [kind |-> "text", text |-> t]
Param(i, tag) == [kind |-> "param", param |-> i, tag |-> tag]
Literal(tag, value) == [kind |-> "value", tag |-> tag, value |-> value]

Comma == << Token(",") >>
InBrackets(lbr, code, rbr) == << Token(lbr) >> \o (code \o << Token(rbr) >>)

(* What is written, and the number of the next parameter.                  *)
Writes(code, next) == [code |-> code, next |-> next]

(* exs::write_to, from what write_to of each expression writes.            *)
write_next(writers, i, w) ==
  LET one == writers[i][w.next]
  IN  Writes(w.code \o (Separator(Comma, i) \o one.code), one.next)

write_all(writers, param_idx) ==
  LET w[i \in 0 .. Len(writers)] ==
        IF i = 0 THEN Writes(<<>>, param_idx) ELSE write_next(writers, i, w[i - 1])
  IN  w[Len(writers)]

write_call(e, fn, writers, param_idx) ==
  LET f == fn[param_idx]
      args == write_all(writers, f.next)
  IN  Writes(f.code \o InBrackets(e.lbr, args.code, e.rbr), args.next)

write_infix(e, left, right, param_idx) ==
  LET l == left[param_idx]
      r == right[l.next]
  IN  Writes(InBrackets("(", l.code \o (<< Token(e.op) >> \o r.code), ")"), r.next)

write_of(e, write, param_idx) ==
  CASE e.cls = "dyn"   -> Writes(<< Param(param_idx, e.tag) >>, param_idx + 1)
    [] e.cls = "raw"   -> Writes(<< Token(e.code) >>, param_idx)
    [] e.cls = "call"  -> write_call(e, write[e.fn], Each(e.args, write), param_idx)
    [] e.cls = "infix" -> write_infix(e, write[e.left], write[e.right], param_idx)

writer_of(e, write) == [param_idx \in Nat |-> write_of(e, write, param_idx)]

write_to == LET write[n \in Exprs] == writer_of(Nodes[n], write) IN write

Written(es) == write_all(Each(es, write_to), 0).code

(* compile: the call it writes after the header. *)
Source(k) ==
  << Token(k.fn) >>
    \o ((IF k.have_tmpl_args THEN InBrackets("<", Written(k.tmpl_args), ">") ELSE <<>>)
         \o InBrackets("(", Written(k.call_args), ")"))

-----------------------------------------------------------------------------
(* What an expression says, with its values in their places. *)

said_by(e, says) ==
  CASE e.cls = "dyn"   -> << Literal(e.tag, e.value) >>
    [] e.cls = "raw"   -> << Token(e.code) >>
    [] e.cls = "call"  -> says[e.fn] \o InBrackets(e.lbr, Joined(Comma, Each(e.args, says)), e.rbr)
    [] e.cls = "infix" -> InBrackets("(", says[e.left] \o (<< Token(e.op) >> \o says[e.right]), ")")

Says == LET says[n \in Exprs] == said_by(Nodes[n], says) IN says

List(es) == Joined(Comma, Each(es, Says))

Meaning(k) ==
  << Token(k.fn) >>
    \o ((IF k.have_tmpl_args THEN InBrackets("<", List(k.tmpl_args), ">") ELSE <<>>)
         \o InBrackets("(", List(k.call_args), ")"))

(* DOARR_EXPORT[i].tag reads the i-th parameter as its tag says. *)
Reads(token, params) ==
  IF token.kind # "param" THEN token
  ELSE IF token.param < Len(params) /\ params[token.param + 1][1] = token.tag
    THEN Literal(token.tag, params[token.param + 1][2])
    ELSE Token("garbage")

Executed(r) == [i \in DOMAIN r.code |-> Reads(r.code[i], r.params)]

-----------------------------------------------------------------------------
(* doarr::internal::call, when nothing fails. *)

None == <<>>
Init == cache = <<>> /\ run = None

AcceptsAll(k) == TRUE  \* mutant: template arguments are not looked at

Accepted(k) == num_params_of(k.tmpl_args) = 0

Matches(k) == {i \in DOMAIN cache : KeyEqual(cache[i].key, k)}

Run(code, k) ==
  run' = [code |-> code, says |-> Meaning(k),
          room |-> num_params_of(k.call_args), params |-> extract_params_of(k.call_args)]

Refuse(k) ==
  /\ ~Accepted(k)
  /\ run' = None
  /\ UNCHANGED cache

Hit(k) ==
  /\ Accepted(k)
  /\ \E i \in Matches(k) : Run(cache[i].code, k)
  /\ UNCHANGED cache

Miss(k) ==
  /\ Accepted(k)
  /\ Len(cache) < MaxEntries
  /\ Matches(k) = {}
  /\ cache' = Append(cache, [key |-> k, code |-> Source(k)])
  /\ Run(Source(k), k)

Next == \E k \in Calls : Refuse(k) \/ Hit(k) \/ Miss(k)

Spec == Init /\ [][Next]_vars

-----------------------------------------------------------------------------
(* The code that is run says what the call said, with the values of this   *)
(* call, also when it was compiled for an earlier call that is only equal: *)
(* the n-th parameter written is the n-th extracted, of the same type, and *)
(* a collision of hashes confuses nobody (expr_all.cpp:90-147, call.cpp:   *)
(* 116-133).                                                               *)
RunsWhatWasSaid == run # None => Executed(run) = run.says

ParamsIn(code) == {i \in DOMAIN code : code[i].kind = "param"}

(* The array of parameters, allocated by a count made when the nodes were  *)
(* built, is filled to its end, and the code reads each element once, in   *)
(* order: none of them in template arguments, which start to count from 0  *)
(* too (call.cpp:68-70, 97-98, 117-121, expr_all.cpp:125-147).             *)
ParamsFit ==
  run # None =>
    /\ Len(run.params) = run.room
    /\ \A i, j \in ParamsIn(run.code) : i < j => run.code[i].param < run.code[j].param
    /\ {run.code[i].param : i \in ParamsIn(run.code)} = 0 .. run.room - 1

(* No code is compiled twice: calls that differ in dynamic values only     *)
(* share an entry (expr_all.cpp:179-186, call.cpp:23-38).                  *)
CompiledOnce ==
  \A i, j \in DOMAIN cache : i # j => cache[i].code # cache[j].code
=============================================================================
