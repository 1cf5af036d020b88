---- MODULE MCServerPage ----
EXTENDS ServerPage
====
