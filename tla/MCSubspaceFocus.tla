---- MODULE MCSubspaceFocus ----
\* Windows that come, go and move between subspaces that come and go.
EXTENDS SubspaceFocus
====
