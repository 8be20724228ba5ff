-------------------------------- MODULE Lists -------------------------------
(* Sequences whose elements have no type of their own: what serde reads as a    *)
(* list, and what is put together from such lists.                            *)
EXTENDS Sequences

Elements(s) == {s[i] : i \in DOMAIN s}
List(s) == s \in Seq(Elements(s))
=============================================================================
