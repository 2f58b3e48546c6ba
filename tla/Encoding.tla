------------------------------ MODULE Encoding ------------------------------
(***************************************************************************)
(* The write path's encoding guard, lib/encoding.js.  Of a file's bytes it *)
(* looks at a prefix (ENCODE_PROBE_BYTES); what it can tell apart there:   *)
(*   form  "utf8"     valid UTF-8 throughout                               *)
(*         "cut"      valid UTF-8, the prefix ends inside a character      *)
(*         "utf16"    a UTF-16 BOM                                         *)
(*         "foreign"  bytes in the prefix that are not UTF-8               *)
(*         "late"     bytes that are not UTF-8, all past the prefix        *)
(*   bom   a UTF-8 BOM, and the line breaks, crlf and lf of them.          *)
(* The text a phone sends is always UTF-8; its form says how it will be    *)
(* seen by the next probe.                                                 *)
(***************************************************************************)
EXTENDS Integers

Forms == {"utf8", "cut", "utf16", "foreign", "late"}

Texts == [form : Forms, bom : BOOLEAN, crlf : Nat, lf : Nat]

HasUtf16Bom(f) == f.form = "utf16"

HasUtf8Bom(f) == f.bom

(* A fatal TextDecoder on the prefix: it also rejects a character the      *)
(* prefix cuts in two.                                                     *)
IsValidUtf8(f) == f.form \in {"utf8", "late"}

DominantNewline(f) ==
    IF f.crlf = 0 /\ f.lf = 0 THEN "none" ELSE IF f.crlf >= f.lf THEN "crlf" ELSE "lf"

ApplyNewlineStyle(text, style) ==
    IF style = "crlf" THEN [text EXCEPT !.crlf = text.crlf + text.lf, !.lf = 0] ELSE text

WithBom(text, originalHadBom) == [text EXCEPT !.bom = originalHadBom]
=============================================================================
