----------------------------- MODULE MCConnCache ------------------------------
EXTENDS ConnCache
===============================================================================
