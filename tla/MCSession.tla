------------------------------ MODULE MCSession -----------------------------
(* Instances of Session for TLC. *)
EXTENDS Session, TLC

CONSTANTS s1, s2

Query(q) == [to |-> "query", of |-> q]
Parse(n, k) == [to |-> "parse", of |-> <<n, k>>]
Bind(p, n) == [to |-> "bind", of |-> <<p, n>>]
Execute(p) == [to |-> "execute", of |-> <<p, Nil>>]
SyncMessage == [to |-> "sync", of |-> <<>>]

\* Transactions over one and over several queries, statements that throw in the
\* middle, and ones that have no business where they are.
MCQueries ==
  {Query(<<"begin">>), Query(<<"write", "invalid">>), Query(<<"commit", "write">>),
   Query(<<"begin", "write", "commit">>), Query(<<"write", "rollback">>)}

MCExtended ==
  {Parse("", "write"), Parse("n", "read"), Bind("", ""), Bind("p", "n"), Execute(""), Execute("p"), SyncMessage}

\* A client that uses all messages, and one that gets in its way.
MCMessages ==
  s1 :> (MCQueries \cup MCExtended) @@
  s2 :> {Parse("n", "write"), Query(<<"read">>)}
MCMaxMessages == s1 :> 3 @@ s2 :> 1

\* One client and longer conversations.
MCOneMessages == s1 :> (MCQueries \cup MCExtended)
MCOneMaxMessages == s1 :> 5
=============================================================================
