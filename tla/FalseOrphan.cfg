\* Three instances on two plans, two on a page, and a deployment of somebody else.
SPECIFICATION Spec
CONSTANTS
  Plans = {p1, p2}
  Instances = {i1, i2, i3}
  Foreign = {f}
  PageSize = 2
PROPERTY ReportedHasNoInstance
CHECK_DEADLOCK FALSE
