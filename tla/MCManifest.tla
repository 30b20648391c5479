----------------------------- MODULE MCManifest -----------------------------
(* Instances of Manifest for TLC: files as `oboe init', `oboe get' and users    *)
(* write them.                                                              *)
EXTENDS Manifest

CONSTANTS project, name, build, url, oboe, alpha, beta, v1, v2

MCWords == {project, name, build, url, oboe, alpha, beta, v1, v2, dependencies}
Braces(s) == <<LB>> \o s \o <<RB>>

\* `"project": {...},' and a comment.
Before == <<project, CO>> \o Braces(<<NL, name, CO, url, NL>>)
Remark == <<Comment({}), NL>>

Blocks ==
  { <<>>, <<NL>>,
    <<NL>> \o Entry(oboe, v1) \o <<NL>>,
    <<NL>> \o Entry(alpha, v1) \o <<CM, NL>> \o Entry(beta, v2) \o <<NL>>,
    <<NL>> \o Remark \o Entry(oboe, v1) \o <<CM, NL>> \o Entry(alpha, v2) \o <<NL>> }

\* What may follow, with a package's name for a key.
After == { <<>>, <<CM, NL, build, CO>> \o Braces(<<alpha, CO>> \o Braces(<<name, CO, url>>)) }

Document(block, after) ==
  Braces(<<NL>> \o Remark \o Before \o <<CM, NL>>
         \o <<dependencies, CO>> \o Braces(block) \o after \o <<NL>>)

MCDocuments ==
  {Document(block, <<>>) : block \in Blocks} \cup {Document(<<>>, after) : after \in After}
    \cup {Braces(<<NL>> \o Before \o <<NL>>), Braces(<<>>)}
=============================================================================
