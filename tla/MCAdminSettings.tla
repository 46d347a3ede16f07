-------------------------- MODULE MCAdminSettings --------------------------
\* AdminSettings with three requests.
EXTENDS AdminSettings
=============================================================================
