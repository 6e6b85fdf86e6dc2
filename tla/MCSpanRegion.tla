---------------------------- MODULE MCSpanRegion ----------------------------
EXTENDS SpanRegion

\* Rectangles of one and two rows and columns that miss each other or touch,
\* with rows that overlap in part.
MCMarkCorners == {<<0, 0, 1, 1>>, <<0, 1, 2, 2>>, <<2, 0, 3, 2>>}

\* The screen, a rectangle without width and one without height.
MCRequestCorners == {<<0, 0, 3, 3>>, <<1, 1, 1, 2>>, <<0, 2, 3, 2>>}
=============================================================================
