-------------------------- MODULE CredentialMatch --------------------------
(***************************************************************************)
(* credential_helper.rs: the request that git writes to the helper, the    *)
(* address in the URI of a vault item, and the choice of the one item that *)
(* answers the request, or of none.                                        *)
(*                                                                         *)
(* The items are a function from their ids to their URIs: no two items     *)
(* share an id.                                                            *)
(***************************************************************************)
EXTENDS Texts

CONSTANTS
    Hosts, Paths, Styles    \* the addresses, and the ways to write them, of
                            \* MatchesByAddress

(* A line has a key and a value, or is blank, or has no delimiter. *)
Blank == [key |-> "blank", value |-> <<>>]
NoDelimiter == [key |-> "no delimiter", value |-> <<>>]
Keys == {"protocol", "host", "path", "username"}

(* parse_credential_request: the lines before the first blank one, of      *)
(* which the last with a key counts.  A line without "=" is an error.      *)
Considered(lines) == UpTo(lines, Blank)
ParseRequest(lines) ==
    LET read == Considered(lines)
        Of(key) == {i \in DOMAIN read : read[i].key = key}
        Value(key) == IF Of(key) = {} THEN None
                      ELSE read[CHOOSE i \in Of(key) : \A j \in Of(key) : j <= i].value
    IN  IF Contains(read, NoDelimiter) THEN None ELSE [key \in Keys |-> Value(key)]

\* A mutant of NormalizePath: ".git" is looked for before the final "/"
NormalizeOnce(path) == StripSuffix(StripSuffix(StripPrefix(path, "/"), ".git"), "/")
NormalizePath(path) ==
    StripSuffix(StripSuffix(StripSuffix(StripPrefix(path, "/"), "/"), ".git"), "/")

(* A host without its port, in lower case. *)
Host(t) == ToLower(UpTo(t, ":"))

Schemes == {"https://", "http://"}
ParseUri(uri) ==
    LET schemed == uri # <<>> /\ Head(uri) \in Schemes
        rest == IF schemed THEN Tail(uri) ELSE uri
    IN  IF ~schemed /\ (uri = <<>> \/ Contains(uri, " ")) THEN None
        ELSE [host |-> Host(UpTo(rest, "/")),
              path |-> IF Contains(rest, "/") THEN After(rest, First(rest, "/")) ELSE None]

Unmatched == 0
HostOnly == 1
HostAndPathPrefix == 2
Exact == 3

ComparePaths(item, request) ==
    IF item = None \/ request = None THEN HostOnly
    ELSE IF NormalizePath(item) = NormalizePath(request) THEN Exact
    ELSE IF IsPrefix(NormalizePath(item), NormalizePath(request)) THEN HostAndPathPrefix
    ELSE Unmatched

Priority(host, path, uri) ==
    IF uri = None THEN Unmatched
    ELSE LET address == ParseUri(uri)
         IN  IF address = None THEN Unmatched
             ELSE IF address.host # Host(host) THEN Unmatched
             ELSE ComparePaths(address.path, path)

(* match_vault_items: the items of the highest priority.  One of them is   *)
(* the answer, more are an error, and both none and an error say nothing   *)
(* to git.                                                                 *)
Best(host, path, uris) ==
    {id \in DOMAIN uris :
        /\ Priority(host, path, uris[id]) # Unmatched
        /\ \A other \in DOMAIN uris :
              Priority(host, path, uris[other]) <= Priority(host, path, uris[id])}

Matched(host, path, uris) ==
    LET best == Best(host, path, uris)
    IN  IF \E id \in best : best = {id} THEN CHOOSE id \in best : best = {id} ELSE None
-----------------------------------------------------------------------------
(* An address is a host and the segments of a path, none if it has no      *)
(* path.  A style is a way to write it.                                    *)
Joined(segments) ==
    [i \in 1 .. 2 * Len(segments) - 1 |-> IF i % 2 = 1 THEN segments[(i + 1) \div 2] ELSE "/"]
WrittenHost(address, style) == address.host \o style.port
WrittenPath(address, style) ==
    IF address.path = <<>> THEN None ELSE Joined(address.path) \o style.ending
Written(address, style) ==
    style.scheme \o WrittenHost(address, style)
    \o IF address.path = <<>> THEN <<>> ELSE <<"/">> \o WrittenPath(address, style)

Addresses == [host : Hosts, path : Paths]

(* A word is neither a separator nor the suffix of a repository; a host    *)
(* has one at least.  The styles are those that ParseUri and NormalizePath *)
(* are there for.                                                          *)
Marks == {"/", ":", " ", ".git"} \cup Schemes
Words == Tokens \ Marks
ASSUME AddressesAreWords ==
    /\ Marks \subseteq Tokens
    /\ \A host \in Hosts : host \in Seq(Words) /\ host # <<>> /\ ToLower(host) \in Text
    /\ Paths \subseteq Seq(Words)
    /\ \A style \in Styles :
          /\ style.scheme \in {<<>>} \cup {<<s>> : s \in Schemes}
          /\ style.port = <<>> \/ style.port \in {":"} \X Words
          /\ style.ending \in {<<>>, <<"/">>, <<".git">>, <<".git", "/">>}
ASSUME NoneIsNoUri == None \notin [host : Text, path : Text \cup {None}]

ByAddress(request, item) ==
    IF ToLower(request.host) # ToLower(item.host) THEN Unmatched
    ELSE IF request.path = <<>> \/ item.path = <<>> THEN HostOnly
    ELSE IF request.path = item.path THEN Exact
    ELSE IF IsPrefix(Joined(item.path), Joined(request.path)) THEN HostAndPathPrefix
    ELSE Unmatched

RanksByAddress(request, style) ==
    \A item \in Addresses, spelling \in Styles :
        Priority(WrittenHost(request, style), WrittenPath(request, style),
                 Written(item, spelling)) = ByAddress(request, item)

ChoosesByAddress(request, style) ==
    \A this, that \in Addresses :
        Matched(WrittenHost(request, style), WrittenPath(request, style),
                <<Written(this, style), Written(that, style)>>)
          = CASE ByAddress(request, this) > ByAddress(request, that) -> 1
              [] ByAddress(request, this) < ByAddress(request, that) -> 2
              [] OTHER -> None
=============================================================================
