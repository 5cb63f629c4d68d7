----------------------------- MODULE MCListPages -----------------------------
EXTENDS ListPages
MCPages == {JobsPage, NetworkPage, NodesPage, CredentialsPage, ProfilePage, GroupsPage, LogsPage, SessionsPage}
MCTerms == {Ids, {1}}
=============================================================================
