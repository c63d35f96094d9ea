\* Two scrapes beside the operations on one car, across midnight.
SPECIFICATION MSpec
CONSTANTS
  Scraper = {s1, s2}
  Car = {c1}
  Rental = {r1}
  Details = {d1, d2}
  MaxDay = 1
  NULL = NULL
SYMMETRY Interchangeable
INVARIANTS
  TypeOK
  UndisturbedScrapeIsExact
