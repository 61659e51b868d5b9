----------------------------- MODULE ResolveUrl -----------------------------
(***************************************************************************)
(* extractor_resolve_url (src/src/extractor.c): the reference found in a   *)
(* page, a playlist or a listing made into a URL.  The playlist reader and *)
(* the extractor use it for every URL they did not get from the user.      *)
(*                                                                         *)
(* A path is the sequence of its names, the last of them empty if it ends  *)
(* with a slash; a query is part of the last name.                         *)
(***************************************************************************)
EXTENDS Sequences, SequencesExt

CONSTANT None   \* no URL, no key, no name and the like

Url(scheme, host, path) == [scheme |-> scheme, host |-> host, path |-> path]

\* Something that is not a URL: a host and path without a scheme.
IsAbsolute(url) == url.scheme # ""

\* References, as they are written: with a scheme of their own; "//host/path";
\* "/path"; and "path".
Absolute(url) == [form |-> "absolute", url |-> url]
SchemeRelative(host, path) == [form |-> "scheme", url |-> Url("", host, path)]
Rooted(path) == [form |-> "root", url |-> Url("", "", path)]
Relative(path) == [form |-> "relative", url |-> Url("", "", path)]

\* Everything up to the last slash of the base's path stays in front of a
\* relative reference; "." and ".." are left in it.
Resolve(base, ref) ==
    IF ref.form = "absolute" \/ ~IsAbsolute(base) THEN ref.url
    ELSE IF ref.form = "scheme" THEN [ref.url EXCEPT !.scheme = base.scheme]
    ELSE IF ref.form = "root" THEN [base EXCEPT !.path = ref.url.path]
    ELSE [base EXCEPT !.path = (IF @ = <<>> THEN <<>> ELSE Front(@)) \o ref.url.path]

=============================================================================
