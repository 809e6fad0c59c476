------------------------------ MODULE MCPublish ------------------------------
EXTENDS Publish
=============================================================================
