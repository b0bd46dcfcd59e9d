---------------------------- MODULE MCCommands ----------------------------
(* Two commands on a vault of two items, of which the server has a second *)
(* version: one item has another password, and the other is gone.         *)
EXTENDS Commands

CONSTANTS clipper, other

Strings == STRING

Ours == <<"64", "b1">>
Theirs == <<"64", "c2">>
Uri == <<"https://", "github", "/", "alice">>
Item(n, u, p) == [name |-> <<n>>, username |-> <<u>>, password |-> <<p>>, uri |-> Uri,
                  notes |-> None, totp |-> <<"123456">>]
First1 == Ours :> Item("hub", "alice", "old") @@ Theirs :> Item("db", "bob", "pw")
Second2 == Ours :> Item("hub", "alice", "new")
AllVaults == <<<<>>, First1, Second2>>

Entry(k, r) == [key |-> k, reference |-> r]
ById == <<"grimoire:", "64", "b1", "/", "pw">>
ByShortId == <<"grimoire:", "64", "/", "name">>
ByItsName == <<"grimoire:", "/", "/", "db", "/", "user">>
Plain == <<"plain">>

Clip(f) == [kind |-> "clip", item |-> Ours, field |-> <<f>>]
Run(a, b, manifests) ==
    [kind |-> "run", env |-> "A" :> a @@ "B" :> b, manifests |-> manifests]
Line(k, v) == [key |-> k, value |-> v]
Git == [kind |-> "credential",
        lines |-> <<Line("protocol", <<"https">>), Line("host", <<"GitHub">>),
                    Line("path", <<"alice", "/", "repo", ".git">>), Blank>>]
GitHttp == [kind |-> "credential", lines |-> <<Line("protocol", <<"http">>), Line("host", <<"GitHub">>)>>]
GitBad == [kind |-> "credential", lines |-> <<NoDelimiter>>]

\* The first command clips; the second clips too, or runs a child, or
\* answers git.
ClipAndAny == [c \in Commands |->
    IF c = clipper THEN {Clip("password")}
    ELSE {Clip("password"),
          Run(None, Plain, <<>>),
          Run(Plain, None, <<<<Entry("A", ById)>>, <<Entry("C", ById)>>>>),
          Run(None, None, <<<<Entry("A", ById)>>, <<Entry("A", ByShortId), Entry("B", ByItsName)>>>>),
          Git, GitHttp, GitBad}]

GitOnly == [c \in Commands |-> {Git}]

LowerCase == [t \in {"GitHub", "github", "hub.org", "Hub.org"} |->
                CASE t = "GitHub" -> "github" [] t = "Hub.org" -> "hub.org" [] OTHER -> t]
TheHosts == {<<"GitHub">>, <<"github">>, <<"hub.org">>}
ThePaths == {<<>>, <<"ali">>, <<"ali", "repo">>, <<"repo">>}
Style(s, p, e) == [scheme |-> s, port |-> p, ending |-> e]
TheStyles == {Style(<<"https://">>, <<>>, <<>>), Style(<<"http://">>, <<>>, <<".git">>),
              Style(<<>>, <<>>, <<"/">>), Style(<<"https://">>, <<":", "443">>, <<".git", "/">>)}
=============================================================================
