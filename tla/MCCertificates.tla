--------------------------- MODULE MCCertificates ---------------------------
(* A node that answers for one console, and runs one database.              *)
EXTENDS Certificates

CONSTANTS web, db

MCName == {web, db}
MCManaged == {db}

==============================================================================
