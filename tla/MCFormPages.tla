----------------------------- MODULE MCFormPages -----------------------------
EXTENDS FormPages, TLC
CONSTANTS t1, t2
MCTabs == {t1, t2}
Showing(p, q) == (t1 :> p) @@ (t2 :> q)
\* The editor of a network is that of a node with three groups of fields, which
\* are read and written together.
MCLayouts == {Showing(MasterSettings, SMSGateway), Showing(SMSAuth, Elsewhere),
              Showing(SchemaEdit, Elsewhere), Showing(NodeEdit, Elsewhere)}
Symmetry == Permutations(Puts)

\* Once somebody was careless, retired is neither read nor changed any more.
MCView == <<client, server, stamp, touched, careful, IF careful THEN retired ELSE {}>>
=============================================================================
