---------------------------- MODULE MCImeSession ----------------------------
(* Instances of ImeSession.  grimodex is an application in scope, editor is *)
(* not; the contexts arrive in any order, any number of times.              *)
EXTENDS ImeSession, TLC

CONSTANTS grimodex, editor, m1, m2

MCPrograms == {grimodex, editor}
MCInScope == {grimodex}
MCMeanings == {m1, m2}

Wire(program, epoch, secure, field, text) ==
  [program |-> program, epoch |-> epoch, secure |-> secure, field |-> field,
   text |-> text]

\* No metadata; the first focus; the same epoch, secure, in that application and
\* in another; a newer focus elsewhere; secure metadata that is malformed.
MCWireContexts ==
  {Wire(Null, 0, FALSE, "none", FALSE),
   Wire(grimodex, 1, FALSE, "NORMAL", TRUE),
   Wire(grimodex, 1, TRUE, "none", TRUE),
   Wire(editor, 1, FALSE, "PASSWORD", FALSE),
   Wire(editor, 2, FALSE, "none", FALSE),
   Wire(NoProgram, 0, TRUE, "none", FALSE)}

Symmetry == Permutations(MCMeanings)

\* Ordinary and managed clients in one application.
PlainWireContexts ==
  {Wire(Null, 0, FALSE, "none", FALSE), Wire(grimodex, 1, FALSE, "none", FALSE)}

\* The same with a password field, which has no metadata.
PasswordWireContexts ==
  PlainWireContexts \cup {Wire(Null, 0, FALSE, "PASSWORD", FALSE)}

\* A session that is secure from its first command.
SecureWireContexts ==
  {Wire(grimodex, 1, TRUE, "PASSWORD", FALSE)}
=============================================================================
