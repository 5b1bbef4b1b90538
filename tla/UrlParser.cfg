\* All texts of up to five bytes, well formed or not, and forms of up to two fields.
\* No deadlock check: the parser has returned.
SPECIFICATION UrlParserSpec
CONSTANTS
  Alphabet <- AllKinds
  MaxLength = 5
  Fields <- ShortFields
  MaxFields = 2
CHECK_DEADLOCK FALSE
INVARIANT UrlParserTypeOK
INVARIANT ParamsFollowSeparators
INVARIANT FormRoundTrip
PROPERTY ParserReturns
