----------------------------- MODULE References -----------------------------
(***************************************************************************)
(* References to vault items in the environment, of the form               *)
(* grimoire:<id>/<field> or grimoire://<name>/<field>: how `grimoire run`  *)
(* finds them (main.rs, manifest.rs), and what one of them resolves to     *)
(* (session.rs, resolve_single_ref).                                       *)
(*                                                                         *)
(* An environment is a function from all names to texts, None for a name   *)
(* that is not set.  A vault is a function from the ids of its items to    *)
(* its fields; one that the item does not have is None, and that of the    *)
(* key of a TOTP is its code.                                              *)
(***************************************************************************)
EXTENDS Texts

(* parse_grimoire_ref: the last "/" separates the field. *)
ParseRef(value) ==
    LET rest == Tail(value)
        slash == Final(rest, "/")
    IN  IF value = <<>> THEN None
        ELSE IF Head(value) # "grimoire:" \/ slash \in {0, 1, Len(rest)} THEN None
        ELSE [id |-> Before(rest, slash), field |-> After(rest, slash)]

Entries == [key : Tokens, reference : Text]

(* parse_manifest: one entry that is none spoils the file.  Comments and   *)
(* empty lines are not in the list; a name is valid if it is one of Names. *)
ManifestParses(entries, Names) ==
    \A i \in DOMAIN entries : entries[i].key \in Names /\ ParseRef(entries[i].reference) # None

(* apply_manifest_entries, for all files in the order of the command line. *)
Apply(env, entry) ==
    IF env[entry.key] = None THEN [env EXCEPT ![entry.key] = entry.reference] ELSE env
ApplyManifests(env, manifests) == FoldLeft(Apply, env, FlattenSeq(manifests))

Referring(env) == {v \in DOMAIN env : env[v] # None /\ ParseRef(env[v]) # None}

(* resolve_single_ref: the items that the reference may mean, in a listing *)
(* (item ids to names).  More than one is an error like none.              *)
ByName(id) == Len(id) >= 2 /\ SubSeq(id, 1, 2) = <<"/", "/">>
Meant(listing, id) ==
    IF ByName(id) THEN {i \in DOMAIN listing : listing[i] = After(id, 2)}
    ELSE {i \in DOMAIN listing : IsPrefix(id, i)}
TheItem(listing, id) ==
    IF \E i \in Meant(listing, id) : Meant(listing, id) = {i}
    THEN CHOOSE i \in Meant(listing, id) : TRUE ELSE None

FieldNames == {"password", "username", "uri", "notes", "name", "totp"}
FieldOf(field) ==
    CASE field \in {<<"password">>, <<"pw">>} -> "password"
      [] field \in {<<"username">>, <<"user">>} -> "username"
      [] field \in {<<"uri">>, <<"url">>} -> "uri"
      [] field \in {<<"notes">>, <<"note">>} -> "notes"
      [] field \in {<<"name">>, <<"totp">>} -> Head(field)
      [] OTHER -> None

(* The field of the item in the vault as it is now. *)
Field(vault, item, field) ==
    IF item \in DOMAIN vault /\ FieldOf(field) # None THEN vault[item][FieldOf(field)] ELSE None

Meaning(listing, value) ==
    LET ref == ParseRef(value) IN [item |-> TheItem(listing, ref.id), field |-> ref.field]
Listing(vault) == [i \in DOMAIN vault |-> vault[i].name]
=============================================================================
