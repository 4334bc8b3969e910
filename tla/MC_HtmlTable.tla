---------------------------- MODULE MC_HtmlTable ----------------------------
EXTENDS HtmlTable

NoneOrOne == {0, 1}
=============================================================================
