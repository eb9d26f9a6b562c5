--------------------------------- MODULE Caveats -------------------------------
(***************************************************************************)
(* What a certificate allows (agent-mesh-protocol caveats.rs): a scope for *)
(* each kind of access, a bound on calls and the generations it is valid   *)
(* for, each with an order ("at most") and a meet.                         *)
(***************************************************************************)
EXTENDS Integers

\* Scope: everything, or only the members of a set.
Scopes(S) == [all : {TRUE}, only : {{}}] \union [all : {FALSE}, only : SUBSET S]
ScopeTop == [all |-> TRUE, only |-> {}]
Only(s) == [all |-> FALSE, only |-> s]

ScopeLeq(a, b) == b.all \/ (~a.all /\ a.only \subseteq b.only)

ScopeMeet(a, b) ==
    CASE a.all -> b
      [] ~a.all /\ b.all -> a
      [] OTHER -> Only(a.only \intersect b.only)

\* CountBound: unlimited, or at most n.
Counts == [unlimited : {TRUE}, n : {0}] \union [unlimited : {FALSE}, n : Nat]
Unlimited == [unlimited |-> TRUE, n |-> 0]
AtMost(n) == [unlimited |-> FALSE, n |-> n]

CountLeq(a, b) == b.unlimited \/ (~a.unlimited /\ a.n <= b.n)

CountMeet(a, b) ==
    CASE a.unlimited -> b
      [] ~a.unlimited /\ b.unlimited -> a
      [] OTHER -> AtMost(IF a.n <= b.n THEN a.n ELSE b.n)

Caveats(S) ==
    [fs_read : Scopes(S), fs_write : Scopes(S), exec : Scopes(S), net : Scopes(S),
     max_calls : Counts, valid_for_generation : Scopes(Nat)]

CaveatsTop ==
    [fs_read |-> ScopeTop, fs_write |-> ScopeTop, exec |-> ScopeTop, net |-> ScopeTop,
     max_calls |-> Unlimited, valid_for_generation |-> ScopeTop]

Leq(a, b) ==
    /\ ScopeLeq(a.fs_read, b.fs_read) /\ ScopeLeq(a.fs_write, b.fs_write)
    /\ ScopeLeq(a.exec, b.exec) /\ ScopeLeq(a.net, b.net)
    /\ CountLeq(a.max_calls, b.max_calls)
    /\ ScopeLeq(a.valid_for_generation, b.valid_for_generation)

Meet(a, b) ==
    [fs_read |-> ScopeMeet(a.fs_read, b.fs_read),
     fs_write |-> ScopeMeet(a.fs_write, b.fs_write),
     exec |-> ScopeMeet(a.exec, b.exec),
     net |-> ScopeMeet(a.net, b.net),
     max_calls |-> CountMeet(a.max_calls, b.max_calls),
     valid_for_generation |-> ScopeMeet(a.valid_for_generation, b.valid_for_generation)]

===============================================================================
