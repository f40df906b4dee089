----------------------------- MODULE Diagnostics -----------------------------
(***************************************************************************)
(* The error list of a Diagnostics object (Diagnostics.cpp).  A message is  *)
(* its text; what is echoed to the stream is left out, since nothing reads  *)
(* it back.  Other modules keep the list and hand it to these operators.    *)
(***************************************************************************)
EXTENDS Sequences

Behavior == {"debug", "info", "warning", "error"}

\* A text of no characters, or one that vsnprintf cannot produce.
Blank == ""

append(errors, behavior, text) ==
    IF behavior = "error" THEN Append(errors, text) ELSE errors

\* The formatting variant, behind debug, info, warning and error: a message
\* without text is dropped before it gets to append, an error as well.
log(errors, behavior, text) ==
    IF text = Blank THEN errors ELSE append(errors, behavior, text)

error(errors, text) == log(errors, "error", text)

hasError(errors) == errors # <<>>

clearError == <<>>

\* Whether the process survives it.
assertNoError(errors) == ~hasError(errors)
=============================================================================
