------------------------- MODULE MCLoaderRejection -------------------------
\* The loader probe with pages of three words.
EXTENDS LoaderRejection
=============================================================================
