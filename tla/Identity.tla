------------------------------ MODULE Identity ------------------------------
(***************************************************************************)
(* Identities (src/include/ctf/identity.hpp) are opaque 128-bit values;    *)
(* the zero value is the unset identity, which matches none.               *)
(***************************************************************************)
CONSTANT None
=============================================================================
