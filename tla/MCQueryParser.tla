----------------------------- MODULE MCQueryParser -----------------------------
(* The targets and forms that TLC checks.                                  *)
EXTENDS QueryParser

\* "/", and "/?" with each query of up to six bytes out of & = % + Z.
AllQueries == {<<47>>} \cup {<<47, Question>> \o q : q \in BoundedSeq({Amp, Eq, Percent, Plus, 90}, 6)}

Texts(bytes, n) == BoundedSeq(bytes, n)

Fieldset(bytes, n) == Texts(bytes, n) \X Texts(bytes, n)

\* One field of up to two bytes each; one field with each byte there is; two
\* fields of up to one byte each.
AllForms ==
    {<<f>> : f \in Fieldset({Space, Amp, Eq, Percent, Plus, 97, 233}, 2)}
        \cup {<< <<<<b>>, <<b>>>> >> : b \in Byte}
        \cup {<<f, g>> : f, g \in Fieldset({Amp, Eq, 10, 233}, 1)}

Root == <<47>>
===============================================================================
