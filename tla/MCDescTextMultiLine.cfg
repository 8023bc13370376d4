CONSTANT Chars <- MultiLineChars

SPECIFICATION Spec

INVARIANT PositionalLookup
